---- MODULE Spec2Model ----
(***************************************************************************)
(* Verification model of the IOSANS-V2 workflow execution engine:          *)
(* ExecutionEngine (src/src/engine/ExecutionEngine.js), the execution      *)
(* store (src/src/store/executionStore.js) and the node executors          *)
(* (src/unnamed/part_013, NodeExecutors.js).                               *)
(*                                                                         *)
(* A run is a tree of _executeLevel calls.  Every call maps its node ids   *)
(* to asynchronous tasks; a task suspends at `await executor.execute`,     *)
(* at `await this._handleMergeNode` and at `await this._executeLevel` of   *)
(* its downstream level.  Each suspension point is one action here.        *)
(***************************************************************************)
EXTENDS Integers, Sequences, FiniteSets, TLC

(***************************************************************************)
(* Bounds                                                                  *)
(***************************************************************************)
MaxTime == 2
MaxPauses == 1
MaxNodeCalls == 1
MaxRuns == 2
MaxStoreNodes == 2
MaxStoreEdges == 2
MaxSaves == 2

(***************************************************************************)
(* JavaScript values                                                       *)
(***************************************************************************)
Undef == [k |-> "undefined"]
Null == [k |-> "null"]
Str(s) == [k |-> "string", s |-> s]
Bool(b) == [k |-> "boolean", b |-> b]
Num(n) == [k |-> "number", n |-> n]
\* an object: its own keys in insertion order and their values
Obj(ks, f) == [k |-> "object", ks |-> ks, f |-> f]
Arr(a) == [k |-> "array", a |-> a]
EmptyObj == Obj(<< >>, [x \in {} |-> Undef])

NullTime == -1

\* String(v)
ToStr(v) ==
  CASE v.k = "string" -> v.s
    [] v.k = "number" -> ToString(v.n)
    [] v.k = "boolean" -> IF v.b THEN "true" ELSE "false"
    [] v.k = "undefined" -> "undefined"
    [] v.k = "null" -> "null"
    [] OTHER -> "[object Object]"

\* Boolean(v)
Truthy(v) ==
  CASE v.k = "string" -> v.s # ""
    [] v.k = "number" -> v.n # 0
    [] v.k = "boolean" -> v.b
    [] v.k \in {"undefined", "null"} -> FALSE
    [] OTHER -> TRUE

\* typeof v === "object" && v !== null
IsObject(v) == v.k \in {"object", "array"}

\* v[key]
Prop(v, key) ==
  IF v.k = "object" /\ key \in DOMAIN v.f THEN v.f[key] ELSE Undef

\* nodeData.key with a default for a missing key
Data(d, key, default) == IF key \in DOMAIN d THEN d[key] ELSE default

(***************************************************************************)
(* Workflows                                                               *)
(***************************************************************************)
Node(id, type, data) == [id |-> id, type |-> type, data |-> data]
Edge(id, s, t, sh) ==
  [id |-> id, source |-> s, target |-> t, sourceHandle |-> sh, targetHandle |-> << >>]
NoData == [none |-> TRUE]
Code == [code |-> "return"]
Http == [url |-> "http://host/"]

\* S1: manualTrigger -> codeExecutor -> output
WfLinear ==
  [nodes |-> << Node("T", "manualTrigger", NoData), Node("C", "codeExecutor", Code),
                Node("O", "output", NoData) >>,
   edges |-> << Edge("e1", "T", "C", ""), Edge("e2", "C", "O", "") >>]

\* S3: two branches joined by a wait-all merge
WfMergeAll ==
  [nodes |-> << Node("T", "manualTrigger", NoData), Node("X", "delay", NoData),
                Node("Y", "httpRequest", Http),
                Node("M", "merge", [mergeStrategy |-> "object"]) >>,
   edges |-> << Edge("e1", "T", "X", ""), Edge("e2", "T", "Y", ""),
                Edge("e3", "X", "M", ""), Edge("e4", "Y", "M", "") >>]

\* the same join with the race strategy
WfMergeFirst ==
  [nodes |-> << Node("T", "manualTrigger", NoData), Node("X", "delay", NoData),
                Node("Y", "delay", NoData),
                Node("M", "merge", [mergeStrategy |-> "first"]) >>,
   edges |-> << Edge("e1", "T", "X", ""), Edge("e2", "T", "Y", ""),
                Edge("e3", "X", "M", ""), Edge("e4", "Y", "M", "") >>]

\* a plain node with two upstream nodes
WfJoin ==
  [nodes |-> << Node("T", "manualTrigger", NoData), Node("X", "delay", NoData),
                Node("Y", "delay", NoData), Node("O", "output", NoData) >>,
   edges |-> << Edge("e1", "T", "X", ""), Edge("e2", "T", "Y", ""),
                Edge("e3", "X", "O", ""), Edge("e4", "Y", "O", "") >>]

\* a merge whose upstream A has itself two upstream nodes
WfMergeRejoin ==
  [nodes |-> << Node("T", "manualTrigger", NoData), Node("U", "manualTrigger", NoData),
                Node("A", "delay", NoData), Node("M", "merge", NoData) >>,
   edges |-> << Edge("e1", "T", "A", ""), Edge("e2", "U", "A", ""),
                Edge("e3", "A", "M", ""), Edge("e4", "U", "M", "") >>]

\* S2: ifElse routing to A (true) and B (false)
WfIfElse ==
  [nodes |-> << Node("T", "codeExecutor", Code),
                Node("I", "ifElse", [field |-> "value", operator |-> "equals", value |-> "a"]),
                Node("A", "output", NoData), Node("B", "output", NoData) >>,
   edges |-> << Edge("e1", "T", "I", ""), Edge("e2", "I", "A", "I-true"),
                Edge("e3", "I", "B", "I-false") >>]

\* switch with two handles wired to the same target D and a default to E
WfSwitch ==
  [nodes |-> << Node("T", "codeExecutor", Code),
                Node("S", "switch", [switchKey |-> "type", cases |-> {"a", "b", "default"}]),
                Node("D", "output", NoData), Node("E", "output", NoData) >>,
   edges |-> << Edge("e1", "T", "S", ""), Edge("e2", "S", "D", "S-case-a"),
                Edge("e3", "S", "D", "S-case-b"), Edge("e4", "S", "E", "S-case-default") >>]

\* switch without a default case, one case being the empty string
WfSwitchNoDefault ==
  [nodes |-> << Node("T", "codeExecutor", Code),
                Node("S", "switch", [switchKey |-> "type", cases |-> {"a", ""}]),
                Node("D", "output", NoData), Node("E", "output", NoData) >>,
   edges |-> << Edge("e1", "T", "S", ""), Edge("e2", "S", "D", "S-case-a"),
                Edge("e3", "S", "E", "S-case-") >>]

\* two independent branches, one of which can fail; Z has no executor
WfBranches ==
  [nodes |-> << Node("T", "manualTrigger", NoData), Node("A", "httpRequest", Http),
                Node("D", "delay", NoData), Node("B", "output", NoData),
                Node("Z", "note", NoData) >>,
   edges |-> << Edge("e1", "T", "A", ""), Edge("e2", "T", "D", ""),
                Edge("e3", "D", "B", ""), Edge("e4", "A", "Z", "") >>]

\* S4: trigger -> delay -> output; V fails validation (no code)
WfDelay ==
  [nodes |-> << Node("T", "manualTrigger", NoData), Node("D", "delay", NoData),
                Node("O", "output", NoData), Node("V", "codeExecutor", NoData) >>,
   edges |-> << Edge("e1", "T", "D", ""), Edge("e2", "D", "O", ""),
                Edge("e3", "O", "V", "") >>]

\* every node lies on a cycle: there is no start node
\* an httpRequest without downstream nodes beside a delay
WfHttpLeaf ==
  [nodes |-> << Node("T", "manualTrigger", NoData), Node("H", "httpRequest", Http),
                Node("D", "delay", NoData) >>,
   edges |-> << Edge("e1", "T", "H", ""), Edge("e2", "T", "D", "") >>]

\* a merge node with a single incoming branch
WfMergeSingle ==
  [nodes |-> << Node("T", "codeExecutor", Code),
                Node("M", "merge", [mergeStrategy |-> "object"]) >>,
   edges |-> << Edge("e1", "T", "M", "") >>]

WfCycle ==
  [nodes |-> << Node("A", "output", NoData), Node("B", "output", NoData) >>,
   edges |-> << Edge("e1", "A", "B", ""), Edge("e2", "B", "A", "") >>]

\* the empty canvas
WfEmpty == [nodes |-> << >>, edges |-> << >>]

\* every node lies behind the cycle A -> B -> A
WfBehindCycle ==
  [nodes |-> << Node("A", "output", NoData), Node("B", "output", NoData),
                Node("C", "codeExecutor", Code) >>,
   edges |-> << Edge("e1", "A", "B", ""), Edge("e2", "B", "A", ""),
                Edge("e3", "B", "C", "") >>]

\* the id of a resource handle, as the sequence of its characters
ResourceHandle == << "r", "e", "s", "o", "u", "r", "c", "e", "-", "t", "o", "o", "l", "s" >>

\* an edge into a resource slot of its target
ResourceEdge(id, s, t) == [Edge(id, s, t, "") EXCEPT !.targetHandle = ResourceHandle]

\* an aiAgent after a trigger, with one tool node on its resource slot
WfAgentTool ==
  [nodes |-> << Node("T", "manualTrigger", NoData), Node("A", "aiAgent", NoData),
                Node("P", "codeExecutor", Code) >>,
   edges |-> << Edge("e1", "T", "A", ""), ResourceEdge("e2", "P", "A") >>]

\* an aiAgent after a trigger, with three tool nodes on its resource slot: P, Q
\* whose code is missing, and Z of a type without executor
WfAgentTools ==
  [nodes |-> << Node("T", "manualTrigger", NoData), Node("A", "aiAgent", NoData),
                Node("P", "codeExecutor", Code), Node("Q", "codeExecutor", NoData),
                Node("Z", "note", NoData) >>,
   edges |-> << Edge("e1", "T", "A", ""), ResourceEdge("e2", "P", "A"),
                ResourceEdge("e3", "Q", "A"), ResourceEdge("e4", "Z", "A") >>]

Workflows ==
  { WfAgentTool, WfAgentTools, WfBehindCycle, WfCycle, WfEmpty, WfLinear, WfMergeAll, WfMergeFirst, WfJoin, WfMergeRejoin, WfIfElse, WfSwitch,
    WfSwitchNoDefault, WfBranches, WfDelay, WfHttpLeaf, WfMergeSingle }

\* values a codeExecutor's user code can return in the model
CodeOutputs ==
  { Str("a"),
    Obj(<< "type", "value" >>, [type |-> Str("a"), value |-> Str("a")]),
    Obj(<< "type", "value" >>, [type |-> Str("b"), value |-> Str("z")]),
    Obj(<< "type" >>, [type |-> Str("")]) }

\* response bodies an httpRequest can receive in the model
HttpOutputs == { Obj(<< "status" >>, [status |-> Num(200)]) }

\* what an aiAgent returns in the model: {response, trace}
AgentOutputs ==
  { Obj(<< "response", "trace" >>, [response |-> Str("a"), trace |-> Str("")]) }

(***************************************************************************)
(* State                                                                   *)
(***************************************************************************)
VARIABLES
  wf,                 \* the {nodes, edges} passed to executeGraph
  engine,             \* executeGraph's promise: idle, pending, resolved, rejected
  aborted,            \* abortController.signal.aborted
  pendingMerges,      \* ExecutionEngine.pendingMerges
  isRunning, isPaused, executionStartTime, executionEndTime,
  nodeResults, edgeSnapshots,       \* executionStore
  levels,             \* the _executeLevel calls made so far
  tasks,              \* the per-node async callbacks of those calls
  now,                \* Date.now()
  pauses,             \* number of pauseExecution calls so far
  startCount,         \* history: setNodeRunning calls per node
  snapCount,          \* history: setEdgeSnapshot calls per edge
  routed,             \* history: whether the node succeeded, and the inputs, activeHandles
                      \* and downstreamIds of its last success
  steps,              \* history: continuations the event loop has run
  logs,               \* the store's execution log: entries in the order of the addLog calls
  inFlight,           \* history: the nodes with status running when abort() was called
  nodeCalls,          \* history: the calls of executeNode: the node, and whether it returned
  oldSignals          \* signal.aborted of the AbortControllers of the earlier runs, by run

engineVars ==
  << wf, engine, aborted, pendingMerges, isRunning, isPaused, executionStartTime,
     executionEndTime, nodeResults, edgeSnapshots, levels, tasks, now, pauses,
     startCount, snapCount, routed, steps, logs, inFlight, nodeCalls, oldSignals >>

VARIABLES
  cronExpression,     \* matchesCron's argument cron, a string as the sequence of its characters
  cronDate,           \* matchesCron's argument date, as the values of its local-time getters
  cronFields,         \* history: the five fields the expression was written from
  cronResult,         \* << >> before the call, then the one value matchesCron returned
  cronKind,           \* history: "valid", or the way in which the expression is malformed
  schedNodes,         \* the nodes of the flow the scheduler's interval callback reads
  schedClock,         \* the wall clock of the scheduler, in thirds of a minute
  lastRunRef,         \* lastRunRef.current
  initiated,          \* history: per absolute minute, the nodes whose match called handleRun
  scanned,            \* history: the absolute minutes whose schedule triggers were scanned
  callbacks,          \* history: per absolute minute, the interval callbacks that ran in it
  dashIsRunning,      \* Dashboard: isRunning, as selected from the execution store
  started,            \* history: the absolute minutes in which handleRun called executeGraph
  agentTools,         \* the nodes wired to the agent's resource handle, in the order of the edges
  agentConfig,        \* config.maxIterations given to runReActLoop: NoMaxIterations when absent
  agentPc,            \* where the agent is: idle, awaitLLM, awaitTool, returned, threw
  agentI,             \* the loop variable i of runReActLoop
  llmCalls,           \* history: calls of webLLM.chat
  agentSteps,         \* the array steps of runReActLoop
  replies,            \* history: the replies of the LLM, in order
  toolNodeMap,        \* ToolCallingService.toolNodeMap: tool name |-> node id
  invocations,        \* history: the executeNode calls, as node ids
  agentResult,        \* << >>, then the one value runReActLoop returned
  agentOutput,        \* << >>, then the one output AIAgentNodeExecutor.execute returned
  agentStatus,        \* the status of the agent node in the execution store
  scratchpad,         \* currentScratchpad of runReActLoop
  toolFailed          \* history: per _executeTool call, whether the tool invocation failed

cronVars == << cronExpression, cronDate, cronFields, cronResult, cronKind >>
schedVars ==
  << schedNodes, schedClock, lastRunRef, initiated, scanned, callbacks, dashIsRunning, started >>
agentVars ==
  << agentTools, agentConfig, agentPc, agentI, llmCalls, agentSteps, replies, toolNodeMap,
     invocations, agentResult, agentOutput, agentStatus, scratchpad, toolFailed >>


VARIABLES
  storeNodes,         \* useWorkflowStore: state.nodes
  storeEdges,         \* useWorkflowStore: state.edges
  storeOp             \* history: the last operation on the workflow store, and whether its
                      \* argument was a new connection (addEdge) or a well-formed document

storeVars == << storeNodes, storeEdges, storeOp >>

VARIABLES
  artifactDb,         \* the object store "artifacts" of IndexedDB: the records by their id
  pendingSaves,       \* the calls of saveArtifact that wait for db.put
  uuidCount,          \* how many ids uuidv4() has given to saveArtifact
  returnedIds,        \* history: the ids saveArtifact returned, in order
  live,               \* history: the blob saved under each returned id that was not
                      \* deleted or cleared since
  nodeOutputs         \* history: the outputs of the executors that stored an artifact

artifactVars == << artifactDb, pendingSaves, uuidCount, returnedIds, live, nodeOutputs >>

VARIABLES
  orderGraph,         \* the nodes and edges of the graph handed to getExecutionOrder
  orderResult         \* what getExecutionOrder returned, once it was called

orderVars == << orderGraph, orderResult >>

dataVars == << storeVars, artifactVars, orderVars >>
outside == << cronVars, schedVars, agentVars, dataVars >>

vars == << engineVars, outside >>

\* an operation of the workflow store with its arguments
StoreOp(op, ok) == [op |-> op, ok |-> ok]

\* the workflow store as created (workflowStore.js 32-35)
StoreIdle ==
  /\ storeNodes = << >>
  /\ storeEdges = << >>
  /\ storeOp = StoreOp("create", TRUE)

\* no database yet, no artifact saved
ArtifactIdle ==
  /\ artifactDb = << >>
  /\ pendingSaves = {}
  /\ uuidCount = 0
  /\ returnedIds = << >>
  /\ live = << >>
  /\ nodeOutputs = {}

\* getExecutionOrder has not been called
OrderIdle ==
  /\ orderGraph = << >>
  /\ orderResult = << >>

DataIdle == StoreIdle /\ ArtifactIdle /\ OrderIdle

\* The scheduler and the cron matcher at rest, while the engine is looked at.
CronIdle ==
  /\ cronExpression = << >>
  /\ cronDate = << >>
  /\ cronFields = << >>
  /\ cronResult = << >>
  /\ cronKind = "unset"

AgentIdle ==
  /\ agentTools = << >>
  /\ agentConfig = -1
  /\ agentPc = "idle"
  /\ agentI = 0
  /\ llmCalls = 0
  /\ agentSteps = << >>
  /\ replies = << >>
  /\ toolNodeMap = << >>
  /\ invocations = << >>
  /\ agentResult = << >>
  /\ agentOutput = << >>
  /\ agentStatus = "pending"
  /\ scratchpad = << >>
  /\ toolFailed = << >>

SchedIdle ==
  /\ schedNodes = << >>
  /\ schedClock = 0
  /\ lastRunRef = 0
  /\ initiated = << >>
  /\ scanned = {}
  /\ callbacks = << >>
  /\ dashIsRunning = FALSE
  /\ started = << >>

(***************************************************************************)
(* _buildExecutionGraph                                                    *)
(***************************************************************************)
Range(s) == { s[i] : i \in DOMAIN s }

RECURSIVE Dedup(_)
\* insertion order of a JavaScript Set fed with the elements of s
Dedup(s) ==
  IF s = << >> THEN << >>
  ELSE LET r == Dedup(SubSeq(s, 1, Len(s) - 1))
       IN IF s[Len(s)] \in Range(r) THEN r ELSE Append(r, s[Len(s)])

HasNode(w, id) == \E i \in DOMAIN w.nodes : w.nodes[i].id = id
NodeOf(w, id) == w.nodes[CHOOSE i \in DOMAIN w.nodes : w.nodes[i].id = id]
WfNodeIds(w) == { w.nodes[i].id : i \in DOMAIN w.nodes }
EdgeIds(w) == { w.edges[i].id : i \in DOMAIN w.edges }

GraphEdges(w) ==
  SelectSeq(w.edges, LAMBDA e : HasNode(w, e.source) /\ HasNode(w, e.target))
IncomingEdges(w, id) == SelectSeq(GraphEdges(w), LAMBDA e : e.target = id)
OutgoingEdges(w, id) == SelectSeq(GraphEdges(w), LAMBDA e : e.source = id)
Incoming(w, id) ==
  LET es == IncomingEdges(w, id) IN Dedup([i \in DOMAIN es |-> es[i].source])
Outgoing(w, id) ==
  LET es == OutgoingEdges(w, id) IN Dedup([i \in DOMAIN es |-> es[i].target])

\* String.prototype.includes with a string argument
Contains(str, sub) ==
  \E i \in 1..(Len(str) - Len(sub) + 1) : SubSeq(str, i, i + Len(sub) - 1) = sub

\* the edges AIAgentNodeExecutor takes for tool connections of the agent
ResourceEdges(w, id) ==
  SelectSeq(w.edges, LAMBDA e : e.target = id /\ Contains(e.targetHandle, << "r", "e", "s", "o", "u", "r", "c", "e" >>))

\* a _findStartNodes that returns every node
FindAllNodes(w) == [i \in DOMAIN w.nodes |-> w.nodes[i].id]

\* _findStartNodes
FindStartNodes(w) ==
  LET ids == [i \in DOMAIN w.nodes |-> w.nodes[i].id]
  IN SelectSeq(ids, LAMBDA id : Incoming(w, id) = << >>)

\* Array.prototype.find, given the elements that satisfy the predicate in
\* array order: the first of them, or undefined
Find(matching) == IF matching = << >> THEN Undef ELSE matching[1]

(***************************************************************************)
(* executionStore                                                          *)
(***************************************************************************)
NoResult ==
  [status |-> "none", output |-> Undef, error |-> "", startTime |-> NullTime,
   endTime |-> NullTime]

SetNodeRunning(nr, id, t) ==
  [nr EXCEPT ![id] = [@ EXCEPT !.status = "running", !.startTime = t]]

SetNodeSuccess(nr, id, output, t) ==
  [nr EXCEPT ![id] = [@ EXCEPT !.status = "success", !.output = output,
                               !.error = "", !.endTime = t]]

SetNodeError(nr, id, msg, t) ==
  [nr EXCEPT ![id] = [@ EXCEPT !.status = "error", !.output = Null,
                               !.error = msg, !.endTime = t]]

\* addLog({nodeId, type, content}): the store under src/ predates this
\* action, which the engine calls at 223, 270 and 338; it appends the entry
AddLog(lg, nodeId, type, content) ==
  Append(lg, [nodeId |-> nodeId, type |-> type, content |-> content])

NoSnapshot == [data |-> Undef, timestamp |-> NullTime]
SetEdgeSnapshot(es, edgeId, data, t) ==
  [es EXCEPT ![edgeId] = [data |-> data, timestamp |-> t]]

(***************************************************************************)
(* Executor registry                                                       *)
(***************************************************************************)
\* getExecutor(type): the executor class registered for the type, or "none"
getExecutor(type) ==
  CASE type \in {"start", "manualTrigger", "scheduleTrigger"} -> "StartNodeExecutor"
    [] type \in {"end", "output"} -> "EndNodeExecutor"
    [] type = "merge" -> "MergeNodeExecutor"
    [] type \in {"branch", "switch"} -> "BranchNodeExecutor"
    [] type = "delay" -> "DelayNodeExecutor"
    [] type \in {"condition", "ifElse"} -> "ConditionNodeExecutor"
    [] type = "codeExecutor" -> "CodeExecutor"
    [] type = "httpRequest" -> "HTTPRequestNodeExecutor"
    [] type = "aiAgent" -> "AIAgentNodeExecutor"
    [] OTHER -> "none"

\* a validate that accepts every node
ValidateNothing(ex, data) == ""

\* executor.validate(context): the error message, "" when valid
Validate(ex, data) ==
  IF ex = "CodeExecutor" /\ ~("code" \in DOMAIN data)
  THEN "Code is required. Open Inspector to add JavaScript."
  ELSE IF ex = "HTTPRequestNodeExecutor" /\ ~("url" \in DOMAIN data)
  THEN "URL is required. Open Inspector to configure."
  ELSE ""

\* executors whose execute() has no real suspension point: the promise they
\* return is settled when the call returns
IsSync(ex) ==
  ex \in {"StartNodeExecutor", "EndNodeExecutor", "MergeNodeExecutor", "BranchNodeExecutor",
          "ConditionNodeExecutor", "CodeExecutor"}

Init ==
  /\ wf \in Workflows
  /\ engine = "idle"
  /\ aborted = FALSE
  /\ pendingMerges = [id \in WfNodeIds(wf) |-> {}]
  /\ isRunning = FALSE
  /\ isPaused = FALSE
  /\ executionStartTime = NullTime
  /\ executionEndTime = NullTime
  /\ nodeResults = [id \in WfNodeIds(wf) |-> NoResult]
  /\ edgeSnapshots = [e \in EdgeIds(wf) |-> NoSnapshot]
  /\ levels = << >>
  /\ tasks = << >>
  /\ now = 1
  /\ pauses = 0
  /\ startCount = [id \in WfNodeIds(wf) |-> 0]
  /\ snapCount = [e \in EdgeIds(wf) |-> 0]
  /\ routed = [id \in WfNodeIds(wf) |-> [succeeded |-> FALSE, has |-> FALSE, handles |-> {},
                                          ids |-> {}, inputs |-> Undef]]
  /\ steps = 0
  /\ logs = << >>
  /\ inFlight = {}
  /\ nodeCalls = << >>
  /\ oldSignals = << >>
  /\ CronIdle
  /\ SchedIdle
  /\ AgentIdle
  /\ DataIdle

(***************************************************************************)
(* Executors (NodeExecutors.js)                                            *)
(***************************************************************************)
\* an ExecutionResult, or a thrown error
Ok(output) == [ok |-> TRUE, output |-> output, has |-> FALSE, handles |-> {}, error |-> ""]
OkRouted(output, handles) ==
  [ok |-> TRUE, output |-> output, has |-> TRUE, handles |-> handles, error |-> ""]
Err(msg) == [ok |-> FALSE, output |-> Undef, has |-> FALSE, handles |-> {}, error |-> msg]

\* Object.values(v)
ObjectValues(v) ==
  CASE v.k = "object" -> [i \in DOMAIN v.ks |-> v.f[v.ks[i]]]
    [] v.k = "array" -> v.a
    [] v.k = "string" -> IF v.s = "" THEN << >> ELSE << v >>
    [] OTHER -> << >>

\* {...v}
Spread(v) ==
  CASE v.k = "object" -> v
    [] v.k = "array" -> Obj([i \in DOMAIN v.a |-> ToString(i - 1)],
                            [key \in {ToString(i - 1) : i \in DOMAIN v.a} |->
                               v.a[CHOOSE i \in DOMAIN v.a : ToString(i - 1) = key]])
    [] v.k = "string" /\ v.s # "" -> Obj(<< "0" >>, [key \in {"0"} |-> v])
    [] OTHER -> EmptyObj

RECURSIVE Flat(_)
\* Array.prototype.flat()
Flat(a) ==
  IF a = << >> THEN << >>
  ELSE (IF a[1].k = "array" THEN a[1].a ELSE << a[1] >>) \o Flat(Tail(a))

\* MergeNodeExecutor.execute
MergeExecute(data, inputs) ==
  LET mergeStrategy == Data(data, "mergeStrategy", "object")
      vals == ObjectValues(inputs)
  IN Ok(CASE mergeStrategy = "array" -> Arr(vals)
          [] mergeStrategy = "concat" -> Arr(Flat(vals))
          [] mergeStrategy = "first" -> IF vals = << >> THEN Undef ELSE vals[1]
          [] OTHER -> Spread(inputs))

\* BranchNodeExecutor.execute
BranchExecute(data, inputs, nodeId) ==
  LET switchKey == Data(data, "switchKey", "type")
      cases == Data(data, "cases", {})
      switchValue == IF IsObject(inputs) /\ switchKey # ""
                     THEN Prop(inputs, switchKey) ELSE inputs
      activeCase == IF ToStr(switchValue) \in cases THEN Str(ToStr(switchValue))
                    ELSE IF "default" \in cases THEN Str("default") ELSE Null
  IN OkRouted(inputs,
              IF Truthy(activeCase) THEN { nodeId \o "-case-" \o activeCase.s } ELSE {})

\* a == b for b a string
LooseEq(a, b) ==
  CASE a.k \in {"undefined", "null"} -> FALSE
    [] a.k = "boolean" -> (IF a.b THEN "1" ELSE "0") = b
    [] OTHER -> ToStr(a) = b

\* ConditionNodeExecutor.execute (operators equals, notEquals, none)
ConditionExecute(data, inputs, nodeId) ==
  LET field == Data(data, "field", "")
      operator == Data(data, "operator", "")
      value == Data(data, "value", "")
      throws == field # "" /\ inputs.k = "null"
      actualValue == IF field # "" /\ (IsObject(inputs) \/ inputs.k = "null")
                     THEN Prop(inputs, field)
                     ELSE IF Truthy(inputs) /\ Prop(inputs, "value") # Undef
                          THEN Prop(inputs, "value") ELSE inputs
      result == IF throws THEN FALSE
                ELSE CASE operator = "" -> Truthy(actualValue)
                       [] operator \in {"equals", "=="} -> LooseEq(actualValue, value)
                       [] operator \in {"notEquals", "!="} -> ~LooseEq(actualValue, value)
      activeBranch == IF result THEN "true" ELSE "false"
  IN OkRouted(inputs, { nodeId \o "-" \o activeBranch })

(***************************************************************************)
(* _gatherInputs and _handleMergeNode                                      *)
(***************************************************************************)
\* history: the stored results of the upstream nodes when _gatherInputs runs
UpstreamResults(w, nr, id) == [s \in Range(Incoming(w, id)) |-> nr[s]]

\* a _gatherInputs that takes every upstream node, whatever its status
GatherInputsOfAll(w, nr, id) ==
  LET srcs == Incoming(w, id)
  IN IF Len(srcs) = 1 THEN nr[srcs[1]].output
     ELSE Obj(srcs, [s \in Range(srcs) |-> nr[s].output])

GatherInputs(w, nr, id) ==
  LET srcs == SelectSeq(Incoming(w, id), LAMBDA s : nr[s].status = "success")
  IN IF Len(srcs) = 1 THEN nr[srcs[1]].output
     ELSE Obj(srcs, [s \in Range(srcs) |-> nr[s].output])

HandleMergeNode(w, nr, pm, id) ==
  LET incoming == Range(Incoming(w, id))
      completed == { s \in incoming : nr[s].status = "success" }
      strategy == Data(NodeOf(w, id).data, "mergeStrategy", "object")
  IN [pm |-> [pm EXCEPT ![id] = @ \cup completed],
      ready |-> IF strategy \in {"first", "race"}
                THEN Cardinality(completed) > 0
                ELSE Cardinality(completed) = Cardinality(incoming)]

(***************************************************************************)
(* _executeLevel                                                           *)
(***************************************************************************)
\* The engine and store state threaded through the synchronous part of a
\* step: nr = nodeResults, pm = pendingMerges, sc = startCount, lg = logs.
EngineState ==
  [nr |-> nodeResults, pm |-> pendingMerges, tasks |-> tasks, levels |-> levels,
   sc |-> startCount, lg |-> logs]

NewTask(lvl, id) ==
  [level |-> lvl, node |-> id, pc |-> "new", ready |-> FALSE, inputs |-> Undef,
   listening |-> FALSE, rejected |-> FALSE, at |-> NullTime,
   upstream |-> [s \in {} |-> NoResult]]

NewLevel(parent, ids, state, failed, err) ==
  [parent |-> parent, nodes |-> ids, state |-> state, failed |-> failed, err |-> err]

\* a task of level lvl rejects with msg: Promise.all keeps the first rejection
RejectIn(lvls, lvl, msg) ==
  [lvls EXCEPT ![lvl] = IF @.failed THEN @ ELSE [@ EXCEPT !.failed = TRUE, !.err = msg]]

\* the callback of nodeIds.map from getExecutor up to the call of
\* executor.execute (ExecutionEngine.js 209-266)
Proceed(S, ti, ab) ==
  LET t == S.tasks[ti]
      node == NodeOf(wf, t.node)
      executor == getExecutor(node.type)
      inputs == GatherInputs(wf, S.nr, t.node)
      nr1 == SetNodeRunning(S.nr, t.node, now)
      lg1 == AddLog(S.lg, t.node, "info", "Started execution")
      msg == Validate(executor, node.data)
  IN IF executor = "none" THEN [S EXCEPT !.tasks[ti].pc = "done"]
     ELSE IF msg # ""
     THEN [S EXCEPT !.nr = SetNodeError(nr1, t.node, msg, now),
                    !.lg = AddLog(lg1, t.node, "error", msg),
                    !.sc[t.node] = @ + 1,
                    !.tasks[ti].pc = "failed",
                    !.levels = RejectIn(@, t.level, msg)]
     ELSE [S EXCEPT !.nr = nr1,
                    !.lg = lg1,
                    !.sc[t.node] = @ + 1,
                    !.tasks[ti] = [@ EXCEPT !.pc = "executing", !.inputs = inputs,
                                            !.upstream = UpstreamResults(wf, S.nr, t.node),
                                            !.listening = (executor = "DelayNodeExecutor" /\ ~ab),
                                            !.at = now]]

\* the callback of nodeIds.map up to its first await
BeginTask(S, lvl, id, ab) ==
  LET S1 == [S EXCEPT !.tasks = Append(@, NewTask(lvl, id))]
      ti == Len(S1.tasks)
      hm == HandleMergeNode(wf, S1.nr, S1.pm, id)
  IN IF NodeOf(wf, id).type = "merge"
     THEN [S1 EXCEPT !.pm = hm.pm,
                     !.tasks[ti] = [@ EXCEPT !.pc = "mergeAwait", !.ready = hm.ready]]
     ELSE Proceed(S1, ti, ab)

RECURSIVE StartTasks(_, _, _, _)
\* nodeIds.map(async (nodeId) => ...)
StartTasks(S, lvl, ids, ab) ==
  IF ids = << >> THEN S
  ELSE StartTasks(BeginTask(S, lvl, ids[1], ab), lvl, Tail(ids), ab)

\* an _executeLevel without the pause loop
ExecuteLevelUnpaused(S, parent, ids, ab, paused) ==
  LET lvl == Len(S.levels) + 1
  IN IF ab
     THEN [S EXCEPT !.levels = Append(@, NewLevel(parent, ids, "active", TRUE,
                                                   "Execution aborted"))]
     ELSE StartTasks([S EXCEPT !.levels = Append(@, NewLevel(parent, ids, "active", FALSE, ""))],
                     lvl, ids, ab)

\* a call of _executeLevel up to its first await
ExecuteLevel(S, parent, ids, ab, paused) ==
  LET lvl == Len(S.levels) + 1
  IN IF ab
     THEN [S EXCEPT !.levels = Append(@, NewLevel(parent, ids, "active", TRUE,
                                                   "Execution aborted"))]
     ELSE IF paused
     THEN [S EXCEPT !.levels = Append(@, NewLevel(parent, ids, "pausewait", FALSE, ""))]
     ELSE StartTasks([S EXCEPT !.levels = Append(@, NewLevel(parent, ids, "active", FALSE, ""))],
                     lvl, ids, ab)

\* what `await executor.execute(executionContext)` can settle with
Outcomes(t) ==
  LET node == NodeOf(wf, t.node)
      executor == getExecutor(node.type)
  IN CASE executor = "StartNodeExecutor" ->
            { Ok(Obj(<< "triggered", "timestamp" >>,
                     [triggered |-> Bool(TRUE), timestamp |-> Num(t.at)])) }
       [] executor = "EndNodeExecutor" -> { Ok(t.inputs) }
       [] executor = "MergeNodeExecutor" -> { MergeExecute(node.data, t.inputs) }
       [] executor = "BranchNodeExecutor" -> { BranchExecute(node.data, t.inputs, t.node) }
       [] executor = "DelayNodeExecutor" ->
            IF t.rejected THEN { Err("Execution aborted") } ELSE { Ok(t.inputs) }
       [] executor = "ConditionNodeExecutor" ->
            { ConditionExecute(node.data, t.inputs, t.node) }
       [] executor = "CodeExecutor" ->
            { Ok(v) : v \in CodeOutputs } \cup { Err("Code execution failed") }
       [] executor = "HTTPRequestNodeExecutor" ->
            { Ok(v) : v \in HttpOutputs } \cup { Err("HTTP Request failed") }
       [] executor = "AIAgentNodeExecutor" ->
            { Ok(v) : v \in AgentOutputs } \cup { Err("LLM Generation failed") }

RECURSIVE SnapshotEdges(_, _, _)
\* the edges entry.outgoing.forEach finds for the snapshots (279-287)
SnapshotEdges(id, targets, acc) ==
  IF targets = << >> THEN acc
  ELSE LET edge == Find(SelectSeq(IncomingEdges(wf, id), LAMBDA e : e.target = targets[1]))
       IN SnapshotEdges(id, Tail(targets),
                        IF edge = Undef THEN acc ELSE Append(acc, edge.id))

RECURSIVE WriteSnapshots(_, _, _)
WriteSnapshots(es, ids, output) ==
  IF ids = << >> THEN es
  ELSE WriteSnapshots(SetEdgeSnapshot(es, ids[1], output, now), Tail(ids), output)

RECURSIVE CountSnapshots(_, _)
CountSnapshots(cnt, ids) ==
  IF ids = << >> THEN cnt
  ELSE CountSnapshots([cnt EXCEPT ![ids[1]] = @ + 1], Tail(ids))

\* the conditional-routing filter on downstreamIds (292-321)
DownstreamIds(id, r) ==
  LET all == Outgoing(wf, id)
      Active(targetId) ==
        LET connectingEdge ==
              Find(SelectSeq(IncomingEdges(wf, targetId), LAMBDA e : e.source = id))
        IN connectingEdge # Undef /\ connectingEdge.sourceHandle \in r.handles
  IN IF r.has THEN SelectSeq(all, Active) ELSE all

(***************************************************************************)
(* Actions                                                                 *)
(***************************************************************************)
TasksOf(lvl) == { ti \in DOMAIN tasks : tasks[ti].level = lvl }

RECURSIVE RootOf(_, _, _)
\* the level of the start nodes from which level lvl was reached
RootOf(ts, lvls, lvl) ==
  IF lvls[lvl].parent = 0 THEN lvl ELSE RootOf(ts, lvls, ts[lvls[lvl].parent].level)

\* the run a level belongs to: which executeGraph call its context is of
RunOf(ts, lvls, lvl) ==
  Cardinality({ r \in 1..RootOf(ts, lvls, lvl) : lvls[r].parent = 0 })

\* context.signal.aborted for the level: the signal of its own run
Signal(lvl) ==
  LET r == RunOf(tasks, levels, lvl)
  IN IF r > Len(oldSignals) THEN aborted ELSE oldSignals[r]

\* a Promise.all that waits for every task and never rejects early
CanSettleNoReject(lvl) ==
  /\ levels[lvl].state = "active"
  /\ \A ti \in TasksOf(lvl) : tasks[ti].pc = "done"

\* Promise.all of the level has settled and its caller has not resumed yet
CanSettle(lvl) ==
  /\ levels[lvl].state = "active"
  /\ levels[lvl].failed \/ \A ti \in TasksOf(lvl) : tasks[ti].pc = "done"

\* the continuation of the task runs as a microtask: its await is on a promise
\* that is already settled
IsMicro(ti) ==
  \/ tasks[ti].pc = "mergeAwait"
  \/ /\ tasks[ti].pc = "executing"
     /\ IsSync(getExecutor(NodeOf(wf, tasks[ti].node).type)) \/ tasks[ti].rejected

\* The microtask queue is not empty.  Timers, network replies and user
\* interface events are macrotasks: they run only when it is empty.  The
\* order among the pending microtasks is left open.
MicroPending ==
  \/ \E ti \in DOMAIN tasks : IsMicro(ti)
  \/ \E lvl \in DOMAIN levels : CanSettle(lvl)

\* the promise of executor.execute has settled: at once for a microtask, at
\* some later macrotask (timer, network reply) otherwise
CanSettleTask(ti) ==
  /\ tasks[ti].pc = "executing"
  /\ IsMicro(ti) \/ ~MicroPending

\* a pause loop without the abort check at line 186
CanLeavePauseNoAbortCheck(lvl) ==
  /\ levels[lvl].state = "pausewait"
  /\ ~isPaused
  /\ ~MicroPending

\* the 200 ms timer of the pause loop fired and the loop ends: by the abort
\* check inside it, or because isPaused is false
CanLeavePause(lvl) ==
  /\ levels[lvl].state = "pausewait"
  /\ ~isPaused \/ Signal(lvl)
  /\ ~MicroPending

\* some continuation of the engine is ready to run
EngineEnabled ==
  \/ \E ti \in DOMAIN tasks : tasks[ti].pc = "mergeAwait" \/ CanSettleTask(ti)
  \/ \E lvl \in DOMAIN levels : CanLeavePause(lvl) \/ CanSettle(lvl)

\* executeGraph up to `await this._executeLevel(startNodes, ...)`
StartRun ==
  /\ aborted' = FALSE
  /\ LET startNodes == FindStartNodes(wf)
         S == ExecuteLevel([EngineState EXCEPT !.nr = [id \in WfNodeIds(wf) |-> NoResult],
                                               !.pm = [id \in WfNodeIds(wf) |-> {}]],
                           0, startNodes, FALSE, FALSE)
     IN IF startNodes = << >>
        THEN /\ engine' = "rejected"
             /\ UNCHANGED << pendingMerges, isRunning, isPaused, executionStartTime,
                             executionEndTime, nodeResults, edgeSnapshots, levels, tasks,
                             startCount, logs >>
        ELSE /\ engine' = "pending"
             /\ isRunning' = TRUE
             /\ isPaused' = FALSE
             /\ executionStartTime' = now
             /\ executionEndTime' = NullTime
             /\ edgeSnapshots' = [e \in DOMAIN edgeSnapshots |-> NoSnapshot]
             /\ nodeResults' = S.nr
             /\ pendingMerges' = S.pm
             /\ tasks' = S.tasks
             /\ levels' = S.levels
             /\ startCount' = S.sc
             /\ logs' = S.lg
  /\ UNCHANGED outside
  /\ UNCHANGED << nodeCalls, wf, now, pauses, snapCount, routed, steps, inFlight >>

\* the first executeGraph of the engine
ExecuteGraph ==
  /\ engine = "idle"
  /\ StartRun
  /\ UNCHANGED oldSignals

\* handleRun after a run has ended (isRunning is false): executeGraph makes a
\* new AbortController; the contexts of the earlier run keep their signal
ExecuteGraphAgain ==
  /\ engine \in {"resolved", "rejected"}
  /\ ~isRunning
  /\ ~MicroPending
  /\ levels # << >>
  /\ Len(oldSignals) + 1 < MaxRuns
  /\ StartRun
  /\ oldSignals' = Append(oldSignals, aborted)

\* a merge task resumes after `await this._handleMergeNode(...)`
MergeResume(ti) ==
  /\ tasks[ti].pc = "mergeAwait"
  /\ steps' = steps + 1
  /\ LET S == IF tasks[ti].ready THEN Proceed(EngineState, ti, Signal(tasks[ti].level))
              ELSE [EngineState EXCEPT !.tasks[ti].pc = "done"]
     IN /\ nodeResults' = S.nr
        /\ tasks' = S.tasks
        /\ levels' = S.levels
        /\ startCount' = S.sc
        /\ logs' = S.lg
  /\ UNCHANGED outside
  /\ UNCHANGED << oldSignals, nodeCalls, wf, engine, aborted, pendingMerges, isRunning, isPaused,
                  executionStartTime, executionEndTime, edgeSnapshots, now, pauses,
                  snapCount, routed, inFlight >>

\* a task resumes after `await executor.execute(...)`: lines 268-327 when the
\* executor returned, lines 328-346 when it threw
TaskSettle(ti) ==
  /\ CanSettleTask(ti)
  /\ steps' = steps + 1
  /\ \E r \in Outcomes(tasks[ti]) :
       LET id == tasks[ti].node
           snaps == SnapshotEdges(id, Outgoing(wf, id), << >>)
           downstreamIds == DownstreamIds(id, r)
           S1 == [EngineState EXCEPT !.nr = SetNodeSuccess(@, id, r.output, now),
                                     !.lg = AddLog(@, id, "success", "Completed successfully"),
                                     !.tasks[ti].pc = IF downstreamIds = << >>
                                                      THEN "done" ELSE "awaitLevel"]
           S == IF downstreamIds = << >> THEN S1
                ELSE ExecuteLevel(S1, ti, downstreamIds, Signal(tasks[ti].level), isPaused)
       IN IF r.ok
          THEN /\ nodeResults' = S.nr
               /\ pendingMerges' = S.pm
               /\ tasks' = S.tasks
               /\ levels' = S.levels
               /\ startCount' = S.sc
               /\ logs' = S.lg
               /\ edgeSnapshots' = WriteSnapshots(edgeSnapshots, snaps, r.output)
               /\ snapCount' = CountSnapshots(snapCount, snaps)
               /\ routed' = [routed EXCEPT ![id] = [succeeded |-> TRUE, has |-> r.has,
                                                    handles |-> r.handles,
                                                    ids |-> Range(downstreamIds),
                                                    inputs |-> tasks[ti].inputs]]
          ELSE /\ nodeResults' = SetNodeError(nodeResults, id, r.error, now)
               /\ tasks' = [tasks EXCEPT ![ti].pc = "failed"]
               /\ levels' = RejectIn(levels, tasks[ti].level, r.error)
               /\ logs' = AddLog(logs, id, "error", r.error)
               /\ UNCHANGED << pendingMerges, startCount, edgeSnapshots, snapCount, routed >>
  /\ UNCHANGED outside
  /\ UNCHANGED << oldSignals, nodeCalls, wf, engine, aborted, isRunning, isPaused, executionStartTime,
                  executionEndTime, now, pauses, inFlight >>

\* one turn of the pause loop of _executeLevel (184-188) that leaves the loop
PauseLoop(lvl) ==
  /\ CanLeavePause(lvl)
  /\ steps' = steps + 1
  /\ LET S0 == [EngineState EXCEPT !.levels[lvl].state = "active"]
         S == IF isPaused
              THEN [S0 EXCEPT !.levels = RejectIn(@, lvl, "Execution aborted")]
              ELSE StartTasks(S0, lvl, levels[lvl].nodes, Signal(lvl))
     IN /\ nodeResults' = S.nr
        /\ pendingMerges' = S.pm
        /\ tasks' = S.tasks
        /\ levels' = S.levels
        /\ startCount' = S.sc
        /\ logs' = S.lg
  /\ UNCHANGED outside
  /\ UNCHANGED << oldSignals, nodeCalls, wf, engine, aborted, isRunning, isPaused, executionStartTime,
                  executionEndTime, edgeSnapshots, now, pauses, snapCount, routed, inFlight >>

\* `await Promise.all(executions)` of a level settles and its caller resumes:
\* the task awaiting it (324, or the catch at 328-346), or executeGraph (69-73)
LevelSettled(lvl) ==
  /\ CanSettle(lvl)
  /\ steps' = steps + 1
  /\ LET l == levels[lvl]
         lv1 == [levels EXCEPT ![lvl].state = "settled"]
     IN IF l.parent = 0
        THEN /\ engine' = IF l.failed THEN "rejected" ELSE "resolved"
             /\ isRunning' = FALSE
             /\ isPaused' = FALSE
             /\ executionEndTime' = now
             /\ levels' = lv1
             /\ UNCHANGED << nodeResults, tasks, logs >>
        ELSE /\ IF l.failed
                THEN /\ nodeResults' = SetNodeError(nodeResults, tasks[l.parent].node,
                                                    l.err, now)
                     /\ tasks' = [tasks EXCEPT ![l.parent].pc = "failed"]
                     /\ levels' = RejectIn(lv1, tasks[l.parent].level, l.err)
                     /\ logs' = AddLog(logs, tasks[l.parent].node, "error", l.err)
                ELSE /\ tasks' = [tasks EXCEPT ![l.parent].pc = "done"]
                     /\ levels' = lv1
                     /\ UNCHANGED << nodeResults, logs >>
             /\ UNCHANGED << engine, isRunning, isPaused, executionEndTime >>
  /\ UNCHANGED outside
  /\ UNCHANGED << oldSignals, nodeCalls, wf, aborted, pendingMerges, executionStartTime, edgeSnapshots, now,
                  pauses, startCount, snapCount, routed, inFlight >>

\* ExecutionEngine.abort: the abort event rejects every armed delay
Abort ==
  /\ engine # "idle"
  /\ ~aborted
  /\ ~MicroPending
  /\ aborted' = TRUE
  /\ inFlight' = { id \in WfNodeIds(wf) : nodeResults[id].status = "running" }
  /\ tasks' = [ti \in DOMAIN tasks |->
                 IF /\ tasks[ti].pc = "executing"
                    /\ tasks[ti].listening
                    /\ RunOf(tasks, levels, tasks[ti].level) > Len(oldSignals)
                 THEN [tasks[ti] EXCEPT !.rejected = TRUE] ELSE tasks[ti]]
  /\ UNCHANGED outside
  /\ UNCHANGED << oldSignals, nodeCalls, wf, engine, pendingMerges, isRunning, isPaused, executionStartTime,
                  executionEndTime, nodeResults, edgeSnapshots, levels, now, pauses,
                  startCount, snapCount, routed, steps, logs >>

\* pauseExecution
PauseExecution ==
  /\ ~MicroPending
  /\ isRunning
  /\ ~isPaused
  /\ pauses < MaxPauses
  /\ isPaused' = TRUE
  /\ pauses' = pauses + 1
  /\ UNCHANGED outside
  /\ UNCHANGED << oldSignals, nodeCalls, wf, engine, aborted, pendingMerges, isRunning, executionStartTime,
                  executionEndTime, nodeResults, edgeSnapshots, levels, tasks, now,
                  startCount, snapCount, routed, steps, logs, inFlight >>

\* resumeExecution
ResumeExecution ==
  /\ ~MicroPending
  /\ isPaused
  /\ isPaused' = FALSE
  /\ UNCHANGED outside
  /\ UNCHANGED << oldSignals, nodeCalls, wf, engine, aborted, pendingMerges, isRunning, executionStartTime,
                  executionEndTime, nodeResults, edgeSnapshots, levels, tasks, now, pauses,
                  startCount, snapCount, routed, steps, logs, inFlight >>

\* the clock advances
Tick ==
  /\ now < MaxTime
  /\ now' = now + 1
  /\ UNCHANGED outside
  /\ UNCHANGED << oldSignals, nodeCalls, wf, engine, aborted, pendingMerges, isRunning, isPaused,
                  executionStartTime, executionEndTime, nodeResults, edgeSnapshots, levels,
                  tasks, pauses, startCount, snapCount, routed, steps, logs, inFlight >>

\* what executeNode settles with (93-123): result.output, or the error thrown
ExecuteNodeOutcomes(nodeId, inputs) ==
  IF ~HasNode(wf, nodeId) THEN { Err("Node not found") }
  ELSE LET node == NodeOf(wf, nodeId)
           executor == getExecutor(node.type)
           msg == Validate(executor, node.data)
       IN IF executor = "none" THEN { Err("Executor not found") }
          ELSE IF msg # "" THEN { Err(msg) }
          ELSE Outcomes([NewTask(0, nodeId) EXCEPT !.inputs = inputs, !.at = now])

\* an executeNode that records the node's result in the store
RecordedInStore(nr, nodeId, r) ==
  IF nodeId \notin DOMAIN nr THEN nr
  ELSE IF r.ok THEN SetNodeSuccess(nr, nodeId, r.output, now)
  ELSE SetNodeError(nr, nodeId, r.error, now)

\* nodeResults after executeNode: "We do NOT update the main execution store
\* here" (117-119)
NotRecordedInStore(nr, nodeId, r) == nr

\* the tool inputs an agent passes
ToolInputs == { EmptyObj, Str("q") }

\* a node id that is not in the workflow
MissingNodeId == "X"

\* the callback AIAgentNodeExecutor gives to setTools (part_013 489-499): the
\* running agent of task ti calls executeNode(nodeId, inputs), and the call
\* settles
ExecuteNode(ti, nodeId, inputs) ==
  /\ tasks[ti].pc = "executing"
  /\ NodeOf(wf, tasks[ti].node).type = "aiAgent"
  /\ ~MicroPending
  /\ Len(nodeCalls) < MaxNodeCalls
  /\ \E r \in ExecuteNodeOutcomes(nodeId, inputs) :
       /\ nodeCalls' = Append(nodeCalls, [nodeId |-> nodeId, ok |-> r.ok])
       /\ nodeResults' = NotRecordedInStore(nodeResults, nodeId, r)
  /\ UNCHANGED outside
  /\ UNCHANGED << oldSignals, wf, engine, aborted, pendingMerges, isRunning, isPaused,
                  executionStartTime, executionEndTime, edgeSnapshots, levels, tasks, now,
                  pauses, startCount, snapCount, routed, steps, logs, inFlight >>

\* the nodes a running agent can name: the sources of its resource edges, or
\* a node that was removed from the workflow store after the run began
ToolNodeIds(id) ==
  LET es == ResourceEdges(wf, id) IN { es[i].source : i \in DOMAIN es } \cup { MissingNodeId }

\* the event loop: every continuation the engine has pending
EngineNext ==
  \/ \E ti \in DOMAIN tasks : MergeResume(ti)
  \/ \E ti \in DOMAIN tasks : TaskSettle(ti)
  \/ \E lvl \in DOMAIN levels : PauseLoop(lvl)
  \/ \E lvl \in DOMAIN levels : LevelSettled(lvl)

Next ==
  \/ ExecuteGraph
  \/ EngineNext
  \/ Abort
  \/ PauseExecution
  \/ ResumeExecution
  \/ \E ti \in DOMAIN tasks : \E nodeId \in ToolNodeIds(tasks[ti].node) :
       \E inputs \in ToolInputs : ExecuteNode(ti, nodeId, inputs)

\* runs in which Date.now() does not advance
Spec == Init /\ [][Next]_vars

NextTimed == Next \/ Tick

NextRestart ==
  \/ ExecuteGraph
  \/ EngineNext
  \/ Abort
  \/ PauseExecution
  \/ ResumeExecution
  \/ ExecuteGraphAgain

\* the workflows that are run again: with a node that can fail beside a
\* pending delay or request, with a delay that abort() rejects, with a merge
RestartInit ==
  /\ Init
  /\ wf \in { WfLinear, WfDelay, WfHttpLeaf, WfBranches, WfMergeFirst }

\* runs that the user starts again after they have ended
SpecRestart == RestartInit /\ [][NextRestart]_vars

\* runs in which the clock advances between steps
SpecTimed == Init /\ [][NextTimed]_vars

\* one step of the event loop, told by the history variable alone
EngineStep == EngineEnabled /\ steps' = steps + 1

\* the event loop runs every pending continuation and every executor call
\* settles; the user need not act
FairSpec == Spec /\ WF_steps(EngineStep)

\* moreover a paused run is not left paused: the user resumes it
FairResumeSpec == FairSpec /\ WF_vars(ResumeExecution)

(***************************************************************************)
(* Claims                                                                  *)
(***************************************************************************)
Status(id) == nodeResults[id].status
MergeNodes == { id \in WfNodeIds(wf) : NodeOf(wf, id).type = "merge" }
Strategy(id) == Data(NodeOf(wf, id).data, "mergeStrategy", "object")
WaitAllMerges == { id \in MergeNodes : Strategy(id) \notin {"first", "race"} }
FirstMerges == { id \in MergeNodes : Strategy(id) \in {"first", "race"} }
AllIncomingSucceeded(nr, id) ==
  \A s \in Range(Incoming(wf, id)) : nr[s].status = "success"
\* every task of the run has returned or thrown and executeGraph has settled
Quiescent ==
  /\ engine \in {"resolved", "rejected"}
  /\ \A ti \in DOMAIN tasks : tasks[ti].pc \in {"done", "failed"}
  /\ \A lvl \in DOMAIN levels : levels[lvl].state = "settled"

\* C1: once a node's status is success, no later step of the run changes its
\* status or its output.
C1_SuccessIsFinal ==
  [][\A id \in WfNodeIds(wf) :
       Status(id) = "success" =>
         /\ nodeResults'[id].status = "success"
         /\ nodeResults'[id].output = nodeResults[id].output]_vars

\* C2: a node whose status is success or error is never set to running again,
\* and every node is set to running at most once in a run.
C2_NoReRun ==
  /\ [][\A id \in WfNodeIds(wf) :
          Status(id) \in {"success", "error"} => nodeResults'[id].status # "running"]_vars
  /\ [](\A id \in WfNodeIds(wf) : startCount[id] <= 1)

\* C3: a wait-all merge node starts only when every node of its incoming set
\* has status success, it is started when they all have, and it starts at most
\* once in a run.
C3_MergeWaitAllOnce ==
  /\ [][\A id \in WaitAllMerges :
          startCount'[id] > startCount[id] => AllIncomingSucceeded(nodeResults', id)]_vars
  /\ [](\A id \in WaitAllMerges :
          /\ startCount[id] <= 1
          /\ Quiescent /\ AllIncomingSucceeded(nodeResults, id) => startCount[id] = 1)

\* C4: a merge node with strategy first is started exactly once in a run in
\* which one of its upstream nodes succeeded, whatever its other upstream nodes do.
C4_MergeFirstOnce ==
  \A id \in FirstMerges :
    /\ startCount[id] <= 1
    /\ Quiescent /\ ~aborted /\ (\E s \in Range(Incoming(wf, id)) : Status(s) = "success")
         => startCount[id] = 1

\* the edges of the workflow from b to d
EdgesBetween(b, d) ==
  { e \in Range(GraphEdges(wf)) : e.source = b /\ e.target = d }

\* C5: when a node succeeded with activeHandles = H, a downstream node D is
\* scheduled from it if and only if some edge from the node to D has its
\* sourceHandle in H.
C5_RoutedIffSomeEdgeActive ==
  \A b \in WfNodeIds(wf) :
    routed[b].has =>
      \A d \in WfNodeIds(wf) :
        d \in routed[b].ids <=>
          \E e \in EdgesBetween(b, d) : e.sourceHandle \in routed[b].handles

SwitchNodes ==
  { id \in WfNodeIds(wf) : NodeOf(wf, id).type \in {"switch", "branch"} }
\* the value a switch node switches on, given the inputs it ran with
SwitchedValue(id, inputs) ==
  LET switchKey == Data(NodeOf(wf, id).data, "switchKey", "type")
  IN IF IsObject(inputs) /\ switchKey # "" THEN Prop(inputs, switchKey) ELSE inputs

\* C6: a switch node that succeeded activated exactly the handle of the case
\* equal to the string form of the switched value when that is in cases,
\* otherwise the default handle when cases holds "default", otherwise no
\* handle, and then it scheduled no downstream node.
C6_SwitchHandle ==
  \A id \in SwitchNodes :
    routed[id].has =>
      LET cases == Data(NodeOf(wf, id).data, "cases", {})
          v == ToStr(SwitchedValue(id, routed[id].inputs))
      IN /\ routed[id].handles =
              IF v \in cases THEN { id \o "-case-" \o v }
              ELSE IF "default" \in cases THEN { id \o "-case-default" }
              ELSE {}
         /\ routed[id].handles = {} => routed[id].ids = {}

\* C7: after a successful run every edge whose source has status success has
\* a snapshot holding the source's output, written exactly once.
C7_SnapshotPerEdge ==
  engine = "resolved" =>
    \A e \in Range(GraphEdges(wf)) :
      Status(e.source) = "success" =>
        /\ snapCount[e.id] = 1
        /\ edgeSnapshots[e.id].data = nodeResults[e.source].output

\* C8: run start <= node start <= node end <= run end, for every node with a
\* result and every time that has been recorded.
C8_TimesOrdered ==
  \A id \in WfNodeIds(wf) :
    LET r == nodeResults[id]
    IN r.status # "none" =>
         /\ executionStartTime <= r.startTime
         /\ r.endTime # NullTime => r.startTime <= r.endTime
         /\ executionEndTime # NullTime =>
              /\ r.startTime <= executionEndTime
              /\ r.endTime <= executionEndTime

\* C9: once a node failure has ended the run and stopExecution has been
\* recorded, no node is set to running.
C9_NoStartAfterFailure ==
  [][engine = "rejected" /\ executionEndTime # NullTime =>
       \A id \in WfNodeIds(wf) : startCount'[id] = startCount[id]]_vars

NoNodeRunning == \A id \in WfNodeIds(wf) : Status(id) # "running"

C11_InFlightEndAborted ==
  aborted /\ Quiescent =>
    \A id \in inFlight :
      /\ Status(id) = "error"
      /\ nodeResults[id].error = "Execution aborted"

\* C12: once abort() has been called, a node that has not started is not set
\* to running.
C12_NoStartAfterAbort ==
  [][aborted =>
       \A id \in WfNodeIds(wf) : startCount[id] = 0 => startCount'[id] = 0]_vars

RECURSIVE AncestorsWithin(_, _)
\* the nodes with a path of at most n edges to the nodes of the set vs
AncestorsWithin(vs, n) ==
  IF n = 0 THEN {}
  ELSE LET up == UNION { Range(Incoming(wf, v)) : v \in vs }
       IN up \cup AncestorsWithin(up, n - 1)
\* the nodes with a path to v
Ancestors(v) == AncestorsWithin({v}, Cardinality(WfNodeIds(wf)))

\* C13: a node v starts only when every node u with a path to v that has
\* started in the run has had its success written.
C13_StartAfterUpstreamSuccess ==
  [][\A v \in WfNodeIds(wf) :
       startCount'[v] > startCount[v] =>
         \A u \in Ancestors(v) : startCount'[u] > 0 => routed'[u].succeeded]_vars

IsAcyclic(w) == \A v \in WfNodeIds(w) : v \notin AncestorsWithin({v}, Cardinality(WfNodeIds(w)))
\* executeGraph has settled and left the store stopped
SettledAndStopped ==
  /\ engine \in {"resolved", "rejected"}
  /\ ~isRunning
  /\ ~isPaused
  /\ executionEndTime # NullTime

\* C14: a run of an acyclic workflow whose executor calls all terminate and
\* which is not left paused forever eventually settles, with isRunning false,
\* isPaused false and executionEndTime set.
C14_RunSettles == (IsAcyclic(wf) /\ engine = "pending") ~> SettledAndStopped

\* a run that was paused on the way has settled
C14_Witness ==
  /\ IsAcyclic(wf)
  /\ SettledAndStopped
  /\ pauses > 0
  /\ \E id \in WfNodeIds(wf) : startCount[id] > 0

ObjectMerges == { id \in MergeNodes : Strategy(id) = "object" }
\* the object mapping each upstream source id of m to the output in nr
OutputsBySource(nr, m) ==
  Obj(Incoming(wf, m), [u \in Range(Incoming(wf, m)) |-> nr[u].output])

\* C15: a merge node with strategy object that executes produces the object
\* mapping the id of each of its upstream nodes to that node's output.
C15_MergeObjectOutput ==
  [][\A m \in ObjectMerges :
       Status(m) = "running" /\ nodeResults'[m].status = "success" =>
         nodeResults'[m].output = OutputsBySource(nodeResults, m)]_vars

(***************************************************************************)
(* SchedulerService: strings are sequences of one-character strings         *)
(***************************************************************************)
Digits == {"0", "1", "2", "3", "4", "5", "6", "7", "8", "9"}
Whitespace == {" ", "\t", "\n"}

DigitVal(c) ==
  CASE c = "0" -> 0 [] c = "1" -> 1 [] c = "2" -> 2 [] c = "3" -> 3 [] c = "4" -> 4
    [] c = "5" -> 5 [] c = "6" -> 6 [] c = "7" -> 7 [] c = "8" -> 8 [] c = "9" -> 9

\* String.prototype.includes with a one-character argument
Includes(str, c) == \E i \in DOMAIN str : str[i] = c

\* String.prototype.trim
RECURSIVE TrimStart(_)
TrimStart(str) ==
  IF str # << >> /\ Head(str) \in Whitespace THEN TrimStart(Tail(str)) ELSE str

RECURSIVE TrimEnd(_)
TrimEnd(str) ==
  IF str # << >> /\ str[Len(str)] \in Whitespace
  THEN TrimEnd(SubSeq(str, 1, Len(str) - 1))
  ELSE str

Trim(str) == TrimEnd(TrimStart(str))

\* String.prototype.split with a one-character separator: the pieces between the
\* separators, the empty ones included; an array of at least one piece
RECURSIVE SplitFrom(_, _, _)
SplitFrom(str, sep, piece) ==
  IF str = << >> THEN << piece >>
  ELSE IF Head(str) = sep THEN << piece >> \o SplitFrom(Tail(str), sep, << >>)
  ELSE SplitFrom(Tail(str), sep, Append(piece, Head(str)))

Split(str, sep) == SplitFrom(str, sep, << >>)

\* String.prototype.split(/\s+/): a run of whitespace is one separator
RECURSIVE SplitSpacesFrom(_, _)
SplitSpacesFrom(str, piece) ==
  IF str = << >> THEN << piece >>
  ELSE IF Head(str) \in Whitespace
       THEN << piece >> \o SplitSpacesFrom(TrimStart(str), << >>)
       ELSE SplitSpacesFrom(Tail(str), Append(piece, Head(str)))

SplitSpaces(str) == SplitSpacesFrom(str, << >>)

\* A JavaScript number that may be NaN
NaN == [nan |-> TRUE, n |-> 0]
Number(n) == [nan |-> FALSE, n |-> n]

RECURSIVE DigitsPrefix(_)
DigitsPrefix(str) ==
  IF str # << >> /\ Head(str) \in Digits
  THEN << Head(str) >> \o DigitsPrefix(Tail(str))
  ELSE << >>

RECURSIVE DecimalValue(_)
DecimalValue(ds) ==
  IF ds = << >> THEN 0
  ELSE 10 * DecimalValue(SubSeq(ds, 1, Len(ds) - 1)) + DigitVal(ds[Len(ds)])

\* parseInt(str, 10): leading whitespace is skipped, a sign is read, then the longest
\* run of digits; what follows the digits is ignored; NaN without a digit
ParseInt(str) ==
  LET t == TrimStart(str)
      signed == t # << >> /\ Head(t) \in {"+", "-"}
      ds == DigitsPrefix(IF signed THEN Tail(t) ELSE t)
  IN IF ds = << >> THEN NaN
     ELSE Number(IF signed /\ Head(t) = "-" THEN 0 - DecimalValue(ds) ELSE DecimalValue(ds))

RemainderIsANumber(a, b) ==
  /\ ~b.nan
  /\ b.n # 0

\* a % b === 0 for a number a >= 0: a % 0 and a % NaN are NaN
RemainderIsZero(a, b) ==
  /\ ~b.nan
  /\ b.n # 0
  /\ a % (IF b.n < 0 THEN 0 - b.n ELSE b.n) = 0

\* part.split(",").some(p => this._checkPart(p, ...)); the pieces hold no comma
RECURSIVE _checkPart(_, _, _, _)
_checkPart(part, value, min, max) ==
  IF part = << "*" >> THEN TRUE
  ELSE IF Includes(part, ",")
  THEN \E i \in DOMAIN Split(part, ",") : _checkPart(Split(part, ",")[i], value, min, max)
  ELSE IF Includes(part, "/")
  THEN LET range == Split(part, "/")[1]
           step == ParseInt(Split(part, "/")[2])
       IN IF step.nan THEN FALSE
          ELSE IF range = << "*" >> THEN RemainderIsZero(value - min, step)
          ELSE _checkPart(range, value, min, max) /\ RemainderIsZero(value, step)
  ELSE IF Includes(part, "-")
  THEN LET start == ParseInt(Split(part, "-")[1])
           end == ParseInt(Split(part, "-")[2])
       IN /\ ~start.nan
          /\ ~end.nan
          /\ value >= start.n
          /\ value <= end.n
  ELSE ParseInt(part) = Number(value)

limits == << << 0, 59 >>, << 0, 23 >>, << 1, 31 >>, << 1, 12 >>, << 0, 6 >> >>

\* [getMinutes(), getHours(), getDate(), getMonth() + 1, getDay()]
current(date) == << date.minute, date.hour, date.date, date.month, date.day >>

matchesCron(cron, date) ==
  LET parts == SplitSpaces(Trim(cron))
  IN IF Len(parts) # 5 THEN FALSE
     ELSE \A i \in 1..5 : _checkPart(parts[i], current(date)[i], limits[i][1], limits[i][2])

shouldTrigger(node, date) ==
  IF ~node.hasData \/ ~node.enabled \/ node.cronExpression = << >> THEN FALSE
  ELSE matchesCron(node.cronExpression, date)

(***************************************************************************)
(* Cron expressions as they are written: five fields of the grammar          *)
(***************************************************************************)
Star == [k |-> "star", a |-> 0, b |-> 0, items |-> << >>]
Literal(n) == [k |-> "literal", a |-> n, b |-> 0, items |-> << >>]
RangeOf(a, b) == [k |-> "range", a |-> a, b |-> b, items |-> << >>]
StepOf(n) == [k |-> "step", a |-> n, b |-> 0, items |-> << >>]
ListOf(items) == [k |-> "list", a |-> 0, b |-> 0, items |-> items]
\* a-b/n
RangeStepOf(a, b, n) == [k |-> "rangeStep", a |-> a, b |-> b, items |-> << >>, n |-> n]

DigitChar(d) == << "0", "1", "2", "3", "4", "5", "6", "7", "8", "9" >>[d + 1]

\* String(n) for an integer n >= 0
RECURSIVE NumberToString(_)
NumberToString(n) ==
  IF n < 10 THEN << DigitChar(n) >>
  ELSE NumberToString(n \div 10) \o << DigitChar(n % 10) >>

RECURSIVE Join(_, _)
Join(strs, sep) ==
  IF strs = << >> THEN << >>
  ELSE IF Len(strs) = 1 THEN strs[1]
  ELSE strs[1] \o << sep >> \o Join(Tail(strs), sep)

RECURSIVE FieldText(_)
FieldText(f) ==
  CASE f.k = "star" -> << "*" >>
    [] f.k = "literal" -> NumberToString(f.a)
    [] f.k = "range" -> NumberToString(f.a) \o << "-" >> \o NumberToString(f.b)
    [] f.k = "step" -> << "*", "/" >> \o NumberToString(f.a)
    [] f.k = "rangeStep" ->
         NumberToString(f.a) \o << "-" >> \o NumberToString(f.b) \o << "/" >>
           \o NumberToString(f.n)
    [] f.k = "list" -> Join([i \in DOMAIN f.items |-> FieldText(f.items[i])], ",")

CronText(fields) == Join([i \in DOMAIN fields |-> FieldText(fields[i])], " ")

(***************************************************************************)
(* The scheduler loop of the dashboard (App.jsx)                            *)
(***************************************************************************)
TicksPerMinute == 2
MaxSchedClock == 5
MaxSchedNodes == 2
MaxCallbacks == 2

EveryMinute == CronText(<< Star, Star, Star, Star, Star >>)
EverySecondMinute == CronText(<< StepOf(2), Star, Star, Star, Star >>)

ScheduleTrigger(enabled, cron) ==
  [type |-> "scheduleTrigger", hasData |-> TRUE, enabled |-> enabled, cronExpression |-> cron]
ManualTrigger ==
  [type |-> "manualTrigger", hasData |-> TRUE, enabled |-> FALSE, cronExpression |-> << >>]

SchedNodeKinds ==
  { ScheduleTrigger(TRUE, EveryMinute), ScheduleTrigger(FALSE, EveryMinute),
    ScheduleTrigger(TRUE, EverySecondMinute), ManualTrigger }

SchedFlows == UNION { [1..n -> SchedNodeKinds] : n \in 1..MaxSchedNodes }

SchedMinutes == 0..(MaxSchedClock \div TicksPerMinute)

\* Math.floor(now.getTime() / 60000)
CurrentMinute(clock) == clock \div TicksPerMinute

\* new Date() at an absolute minute of January 1970, a month that starts on a Thursday
DateAt(m) ==
  [minute |-> m % 60, hour |-> (m \div 60) % 24, date |-> 1 + (m \div 1440),
   month |-> 1, day |-> (4 + (m \div 1440)) % 7]

\* nodes.forEach(node => { if (type === "scheduleTrigger" && !triggered) ... }):
\* the positions of the nodes whose match called handleRun
RECURSIVE ForEachNode(_, _, _, _)
ForEachNode(nodes, i, triggered, date) ==
  IF i > Len(nodes) THEN << >>
  ELSE IF nodes[i].type = "scheduleTrigger" /\ ~triggered /\ shouldTrigger(nodes[i], date)
  THEN << i >> \o ForEachNode(nodes, i + 1, TRUE, date)
  ELSE ForEachNode(nodes, i + 1, triggered, date)

\* a handleRun without its first line
handleRunAlways(running) == TRUE

\* handleRun: `if (isRunning) return;`, else executeGraph is called
handleRun(running) == ~running

IsLaterMinuteOrSame(currentMinute, last) == currentMinute >= last
IsLaterMinute(currentMinute, last) == currentMinute > last

SchedInit ==
  /\ schedNodes \in SchedFlows
  /\ schedClock = TicksPerMinute
  /\ lastRunRef = 0
  /\ initiated = [m \in SchedMinutes |-> << >>]
  /\ scanned = {}
  /\ callbacks = [m \in SchedMinutes |-> 0]
  /\ dashIsRunning = FALSE
  /\ started = << >>
  /\ CronIdle
  /\ AgentIdle
  /\ DataIdle
  /\ wf = WfLinear
  /\ engine = "idle"
  /\ aborted = FALSE
  /\ pendingMerges = [id \in WfNodeIds(wf) |-> {}]
  /\ isRunning = FALSE
  /\ isPaused = FALSE
  /\ executionStartTime = NullTime
  /\ executionEndTime = NullTime
  /\ nodeResults = [id \in WfNodeIds(wf) |-> NoResult]
  /\ edgeSnapshots = [e \in EdgeIds(wf) |-> NoSnapshot]
  /\ levels = << >>
  /\ tasks = << >>
  /\ now = 1
  /\ pauses = 0
  /\ startCount = [id \in WfNodeIds(wf) |-> 0]
  /\ snapCount = [e \in EdgeIds(wf) |-> 0]
  /\ routed = [id \in WfNodeIds(wf) |-> [succeeded |-> FALSE, has |-> FALSE, handles |-> {},
                                          ids |-> {}, inputs |-> Undef]]
  /\ steps = 0
  /\ logs = << >>
  /\ inFlight = {}
  /\ nodeCalls = << >>
  /\ oldSignals = << >>

\* The callback of setInterval(..., 2000)
IntervalCallback ==
  LET currentMinute == CurrentMinute(schedClock)
  IN /\ callbacks[currentMinute] < MaxCallbacks
     /\ callbacks' = [callbacks EXCEPT ![currentMinute] = @ + 1]
     /\ IF IsLaterMinute(currentMinute, lastRunRef)
        THEN /\ initiated' = [initiated EXCEPT ![currentMinute] =
                                @ \o ForEachNode(schedNodes, 1, FALSE, DateAt(currentMinute))]
             /\ IF ForEachNode(schedNodes, 1, FALSE, DateAt(currentMinute)) # << >>
                   /\ handleRun(dashIsRunning)
                THEN /\ dashIsRunning' = TRUE
                     /\ started' = Append(started, currentMinute)
                ELSE UNCHANGED << dashIsRunning, started >>
             /\ lastRunRef' = currentMinute
             /\ scanned' = scanned \cup {currentMinute}
        ELSE UNCHANGED << initiated, lastRunRef, scanned, dashIsRunning, started >>
     /\ UNCHANGED << schedNodes, schedClock, cronVars, agentVars, engineVars, dataVars >>

\* The run that handleRun started ends: stopExecution sets isRunning to false
RunEnds ==
  /\ dashIsRunning
  /\ dashIsRunning' = FALSE
  /\ UNCHANGED << schedNodes, schedClock, lastRunRef, initiated, scanned, callbacks, started,
                  cronVars, agentVars, engineVars, dataVars >>

\* Time passes between two callbacks
ClockAdvance ==
  /\ schedClock < MaxSchedClock
  /\ schedClock' = schedClock + 1
  /\ UNCHANGED << schedNodes, lastRunRef, initiated, scanned, callbacks, dashIsRunning, started,
                  cronVars, agentVars, engineVars, dataVars >>

\* The user switches a schedule trigger between Active and Paused (updateData)
ToggleEnabled(i) ==
  /\ schedNodes[i].type = "scheduleTrigger"
  /\ schedNodes' = [schedNodes EXCEPT ![i].enabled = ~@]
  /\ UNCHANGED << schedClock, lastRunRef, initiated, scanned, callbacks, dashIsRunning, started,
                  cronVars, agentVars, engineVars, dataVars >>

SchedNext ==
  \/ IntervalCallback
  \/ ClockAdvance
  \/ \E i \in DOMAIN schedNodes : ToggleEnabled(i)
  \/ RunEnds

SchedSpec == SchedInit /\ [][SchedNext]_vars

\* The first node of the flow that is an enabled schedule trigger matching the minute
MatchingTriggers(nodes, m) ==
  { i \in DOMAIN nodes :
      /\ nodes[i].type = "scheduleTrigger"
      /\ nodes[i].enabled
      /\ matchesCron(nodes[i].cronExpression, DateAt(m)) }

FirstMatching(nodes, m) ==
  IF MatchingTriggers(nodes, m) = {} THEN << >>
  ELSE << CHOOSE i \in MatchingTriggers(nodes, m) : \A j \in MatchingTriggers(nodes, m) : i <= j >>

\* C16: the scheduler initiates at most one run per absolute minute: a minute that has
\* been scanned gets no further run, and a scan initiates a run for the first matching
\* enabled schedule trigger only, however many match.
C16_OneRunPerMinute ==
  /\ [](\A m \in DOMAIN initiated : Len(initiated[m]) <= 1)
  /\ [][\A m \in DOMAIN initiated :
          initiated'[m] # initiated[m] =>
            /\ m \notin scanned
            /\ initiated'[m] = FirstMatching(schedNodes, m)]_vars

C16_Witness ==
  \E m \in DOMAIN initiated :
    /\ callbacks[m] >= 2
    /\ Len(initiated[m]) = 1
    /\ schedClock > m * TicksPerMinute
    /\ Cardinality(MatchingTriggers(schedNodes, m)) >= 2

\* C39: a scan whose trigger matches while a run is in progress starts no
\* second run, and the match of that minute is dropped: no run is started
\* for a minute once it has been scanned, on later ticks of the minute or
\* after the run has ended.
C39_MatchWhileRunningDropped ==
  [][/\ started' # started => ~dashIsRunning
     /\ \A m \in SchedMinutes :
          /\ m \in scanned' /\ m \notin scanned /\ dashIsRunning => m \notin Range(started')
          /\ m \in scanned => (m \in Range(started') <=> m \in Range(started))]_vars

\* a trigger matched in a minute in which a run was in progress, the run
\* has ended since, and the minute has had all its later ticks
C39_Witness ==
  \E m \in SchedMinutes :
    /\ m \in scanned
    /\ initiated[m] # << >>
    /\ m \notin Range(started)
    /\ started # << >>
    /\ ~dashIsRunning
    /\ callbacks[m] = MaxCallbacks

(***************************************************************************)
(* matchesCron applied to written expressions and dates                     *)
(***************************************************************************)
MaxStep == 3
MaxListLength == 2

\* Values of a field with limits [min, max]
FieldValues(i) == { limits[i][1], limits[i][1] + 1, limits[i][1] + 2, limits[i][2] }

SimpleFields(i) ==
  {Star}
    \cup { Literal(n) : n \in FieldValues(i) }
    \cup { RangeOf(r[1], r[2]) : r \in { x \in FieldValues(i) \X FieldValues(i) : x[1] <= x[2] } }
    \cup { StepOf(n) : n \in 1..MaxStep }

ListItems(i) ==
  { Literal(limits[i][1]), Literal(limits[i][2]),
    RangeOf(limits[i][1] + 1, limits[i][1] + 2), StepOf(2) }

ValidFields(i) ==
  SimpleFields(i)
    \cup { ListOf(items) : items \in UNION { [1..n -> ListItems(i)] : n \in 2..MaxListLength } }

\* Field p is any field of the grammar; each of the other four is "*" or the literal
\* of its lowest value
ValidExpressions(p) ==
  { [i \in 1..5 |-> IF i = p THEN f ELSE IF lowest[i] THEN Literal(limits[i][1]) ELSE Star] :
      f \in ValidFields(p), lowest \in [1..5 -> BOOLEAN] }

\* Field p is a range with a step, the other four are "*"
RangeStepExpressions(p) ==
  { [i \in 1..5 |-> IF i = p THEN RangeStepOf(r[1], r[2], n) ELSE Star] :
      r \in { x \in FieldValues(p) \X FieldValues(p) : x[1] <= x[2] }, n \in 1..MaxStep }

DateOf(c) == [minute |-> c[1], hour |-> c[2], date |-> c[3], month |-> c[4], day |-> c[5]]

\* Dates whose component p takes several values of its field, the other four being all
\* at their lowest value or all one above it
DatesAround(p) ==
  { DateOf([i \in 1..5 |-> IF i = p THEN v ELSE limits[i][1] + off]) :
      v \in FieldValues(p) \cup { limits[p][1] + 3, limits[p][1] + 5 }, off \in {0, 1} }

OneField(text, p) == Join([i \in 1..5 |-> IF i = p THEN text ELSE << "*" >>], " ")

\* The malformed expressions, by the way they are malformed
Malformed(kind, p) ==
  CASE kind = "fieldCount" ->
         { << >>, Join([i \in 1..4 |-> << "*" >>], " "), Join([i \in 1..6 |-> << "*" >>], " ") }
    [] kind = "nonNumeric" ->
         { OneField(<< "a" >>, p), OneField(<< "?" >>, p) }
    [] kind = "outOfRange" ->
         { OneField(NumberToString(limits[p][2] + 1), p),
           OneField(NumberToString(limits[p][2] + 40), p),
           OneField(FieldText(RangeOf(limits[p][1], limits[p][2] + 40)), p) }
    [] kind = "stepZero" ->
         { OneField(<< "*", "/", "0" >>, p) }
    [] kind = "incompleteRange" ->
         { OneField(NumberToString(limits[p][1] + 1) \o << "-" >>, p),
           OneField(<< "-" >> \o NumberToString(limits[p][1] + 1), p) }
    [] kind = "trailingGarbage" ->
         { OneField(NumberToString(limits[p][1] + 1) \o << "x" >>, p),
           OneField(<< "*", "/", "2", "x" >>, p) }
    [] kind = "extraSlash" ->
         { OneField(<< "*", "/", "2", "/", "3" >>, p) }

MalformedKinds ==
  { "fieldCount", "nonNumeric", "outOfRange", "stepZero", "incompleteRange",
    "trailingGarbage", "extraSlash" }

CronInit ==
  /\ \E p \in 1..5 :
       /\ cronDate \in DatesAround(p)
       /\ \/ /\ cronKind = "valid"
             /\ cronFields \in ValidExpressions(p)
             /\ cronExpression = CronText(cronFields)
          \/ /\ cronKind = "rangeStep"
             /\ cronFields \in RangeStepExpressions(p)
             /\ cronExpression = CronText(cronFields)
          \/ /\ cronKind \in MalformedKinds
             /\ cronFields = << >>
             /\ cronExpression \in Malformed(cronKind, p)
  /\ cronResult = << >>
  /\ SchedIdle
  /\ AgentIdle
  /\ DataIdle
  /\ wf = WfLinear
  /\ engine = "idle"
  /\ aborted = FALSE
  /\ pendingMerges = [id \in WfNodeIds(wf) |-> {}]
  /\ isRunning = FALSE
  /\ isPaused = FALSE
  /\ executionStartTime = NullTime
  /\ executionEndTime = NullTime
  /\ nodeResults = [id \in WfNodeIds(wf) |-> NoResult]
  /\ edgeSnapshots = [e \in EdgeIds(wf) |-> NoSnapshot]
  /\ levels = << >>
  /\ tasks = << >>
  /\ now = 1
  /\ pauses = 0
  /\ startCount = [id \in WfNodeIds(wf) |-> 0]
  /\ snapCount = [e \in EdgeIds(wf) |-> 0]
  /\ routed = [id \in WfNodeIds(wf) |-> [succeeded |-> FALSE, has |-> FALSE, handles |-> {},
                                          ids |-> {}, inputs |-> Undef]]
  /\ steps = 0
  /\ logs = << >>
  /\ inFlight = {}
  /\ nodeCalls = << >>
  /\ oldSignals = << >>

CallMatchesCron ==
  /\ cronResult = << >>
  /\ cronResult' = << matchesCron(cronExpression, cronDate) >>
  /\ UNCHANGED << cronExpression, cronDate, cronFields, cronKind, schedVars, agentVars, engineVars, dataVars >>

CronSpec == CronInit /\ [][CallMatchesCron]_vars

\* What it means for a value to satisfy a field whose lowest value is min
RECURSIVE Satisfies(_, _, _)
Satisfies(f, v, min) ==
  CASE f.k = "star" -> TRUE
    [] f.k = "literal" -> v = f.a
    [] f.k = "range" -> f.a <= v /\ v <= f.b
    [] f.k = "step" -> (v - min) % f.a = 0
    [] f.k = "rangeStep" -> f.a <= v /\ v <= f.b /\ (v - f.a) % f.n = 0
    [] f.k = "list" -> \E i \in DOMAIN f.items : Satisfies(f.items[i], v, min)

EveryFieldSatisfied ==
  \A i \in 1..5 : Satisfies(cronFields[i], current(cronDate)[i], limits[i][1])

\* C17: for a 5-field expression built from '*', integer literals, comma lists, ranges
\* a-b and steps */n, matchesCron returns true exactly when minute, hour, day of month,
\* month and day of week of the date each satisfy their field.
C17_MatchesCronCorrect ==
  cronKind = "valid" /\ cronResult # << >> => cronResult[1] = EveryFieldSatisfied

C17_Witness ==
  /\ cronKind = "valid"
  /\ cronResult = << TRUE >>
  /\ \E i \in 1..5 : cronFields[i].k = "list"
  /\ \E i \in 1..5 : cronFields[i].k = "literal"

\* C18: matchesCron returns false for every malformed expression: a field count other
\* than five, a non-numeric or out-of-range field, a step of zero, an incomplete range,
\* a field with trailing garbage or with extra '/' parts.
C18_MalformedIsFalse ==
  cronKind \in MalformedKinds /\ cronResult # << >> => cronResult = << FALSE >>

\* C34: a field of the form a-b/n matches a value v exactly when a <= v <= b
\* and (v - a) is divisible by n.
C34_RangeStepFromStart ==
  cronKind = "rangeStep" /\ cronResult # << >> => cronResult[1] = EveryFieldSatisfied

(***************************************************************************)
(* ToolCallingService: the ReAct loop, and the agent node that runs it       *)
(***************************************************************************)
DefaultMaxIterations == 10
NoMaxIterations == -1
MaxConfigured == 2
MaxToolCalls == 1

StartsWith(str, prefix) ==
  Len(str) >= Len(prefix) /\ SubSeq(str, 1, Len(prefix)) = prefix

\* String.prototype.replace with a global one-character pattern
ReplaceAll(str, c, d) == [i \in DOMAIN str |-> IF str[i] = c THEN d ELSE str[i]]

ThoughtLabel == << "T", "h", "o", "u", "g", "h", "t", ":" >>
ActionLabel == << "A", "c", "t", "i", "o", "n", ":" >>
ActionInputLabel == << "A", "c", "t", "i", "o", "n", " ", "I", "n", "p", "u", "t", ":" >>
FinalAnswerLabel == << "F", "i", "n", "a", "l", " ", "A", "n", "s", "w", "e", "r", ":" >>
ObservationLabel == << "O", "b", "s", "e", "r", "v", "a", "t", "i", "o", "n", ":" >>
MaxIterationsReached == << "M", "a", "x", " ", "i", "t", "e", "r", "a", "t", "i", "o", "n", "s", " ", "r", "e", "a", "c", "h", "e", "d", "." >>

\* What follows the label that opens line i, up to the end of the text
RestFrom(lines, i, label) ==
  Join(<< SubSeq(lines[i], Len(label) + 1, Len(lines[i])) >> \o SubSeq(lines, i + 1, Len(lines)),
       "\n")

\* /^Label:\s*(.+)$/m: the first line that opens with the label and is followed by
\* something else than whitespace; 0 when there is none
MatchLine(lines, label) ==
  LET hits == { i \in DOMAIN lines :
                  StartsWith(lines[i], label) /\ TrimStart(RestFrom(lines, i, label)) # << >> }
  IN IF hits = {} THEN 0 ELSE CHOOSE i \in hits : \A j \in hits : i <= j

\* The group (.+): after the whitespace, the rest of that line
CaptureLine(lines, i, label) == Split(TrimStart(RestFrom(lines, i, label)), "\n")[1]

NoToolCall == [name |-> << >>, input |-> [kind |-> "none", text |-> << >>]]

\* JSON.parse of the Action Input, the text itself when it is not JSON
ParseInput(text) ==
  IF text = << "{", "}" >> THEN [kind |-> "object", text |-> text]
  ELSE IF text # << >> /\ \A i \in DOMAIN text : text[i] \in Digits
  THEN [kind |-> "number", text |-> text]
  ELSE [kind |-> "string", text |-> text]

_parseReActResponse(text) ==
  LET lines == Split(text, "\n")
      finalMatch == MatchLine(lines, FinalAnswerLabel)
      actionMatch == MatchLine(lines, ActionLabel)
      inputMatch == MatchLine(lines, ActionInputLabel)
      thoughtMatch == MatchLine(lines, ThoughtLabel)
  IN IF finalMatch # 0
     THEN [type |-> "answer", content |-> Trim(RestFrom(lines, finalMatch, FinalAnswerLabel)),
           toolCall |-> NoToolCall, result |-> << >>]
     ELSE IF actionMatch # 0
     THEN [type |-> "action", content |-> text,
           toolCall |->
             [name |-> Trim(CaptureLine(lines, actionMatch, ActionLabel)),
              input |-> IF inputMatch # 0
                        THEN ParseInput(Trim(CaptureLine(lines, inputMatch, ActionInputLabel)))
                        ELSE [kind |-> "object", text |-> << "{", "}" >>]],
           result |-> << >>]
     ELSE [type |-> "thought",
           content |-> IF thoughtMatch # 0
                       THEN Trim(CaptureLine(lines, thoughtMatch, ThoughtLabel))
                       ELSE text,
           toolCall |-> NoToolCall, result |-> << >>]

\* generateToolSchema: name `${type}_${id.replace(/-/g, "_")}`
ToolSchemaName(node) == node.type \o << "_" >> \o ReplaceAll(node.id, "-", "_")

\* scanConnectedTools: one schema per resource edge into the agent
scanConnectedTools(tools) == [i \in DOMAIN tools |-> ToolSchemaName(tools[i])]

\* AIAgentNodeExecutor.execute, step 2: for each tool and each resource edge,
\* toolNodeMap.set(tool.name, source.id) when the name includes the source's id
BuildToolNodeMap(tools) ==
  LET names == Range(scanConnectedTools(tools))
      sources(name) == { i \in DOMAIN tools : Contains(name, ReplaceAll(tools[i].id, "-", "_")) }
      last(name) == CHOOSE i \in sources(name) : \A j \in sources(name) : j <= i
  IN [name \in { n \in names : sources(n) # {} } |-> tools[last(name)].id]

PythonType == << "p", "y", "t", "h", "o", "n" >>
TextToSpeechType == << "t", "e", "x", "t", "T", "o", "S", "p", "e", "e", "c", "h" >>
RegisteredTypes == { PythonType, TextToSpeechType }

ToolP == [id |-> << "p", "-", "1" >>, type |-> PythonType]
ToolQ == [id |-> << "p", "-", "1", "2" >>, type |-> TextToSpeechType]
AgentToolSets == { << >>, << ToolP >>, << ToolP, ToolQ >>, << ToolQ, ToolP >> }

ThoughtText == << "h", "m" >>
AnswerText == << "4", "2" >>
UnknownToolName == << "z", "z" >>
ToolOutputText == << "o", "k" >>
ToolFailedJson == << "{", "\"", "e", "r", "r", "o", "r", "\"", ":", "\"", "T", "o", "o", "l", " ", "e", "x", "e", "c", "u", "t", "i", "o", "n", " ", "f", "a", "i", "l", "e", "d", ":", " ", "b", "o", "o", "m", "\"", "}" >>
NotFoundJson(name) == << "{", "\"", "e", "r", "r", "o", "r", "\"", ":", "\"", "T", "o", "o", "l", " ", "\\", "\"" >> \o name \o << "\\", "\"", " ", "n", "o", "t", " ", "f", "o", "u", "n", "d", "\"", "}" >>

QuestionLabel == << "Q", "u", "e", "s", "t", "i", "o", "n", ":" >>
UserPrompt == << "q" >>
\* `Question: ${userPrompt}\nThought: `
InitialScratchpad == QuestionLabel \o << " " >> \o UserPrompt \o << "\n" >> \o ThoughtLabel \o << " " >>

ThoughtOnly == ThoughtLabel \o << " " >> \o ThoughtText
ThoughtAction(name) ==
  ThoughtLabel \o << " " >> \o ThoughtText \o << "\n" >> \o ActionLabel \o << " " >> \o name
    \o << "\n" >> \o ActionInputLabel \o << " ", "{", "}" >>
ActionAlone(name) == ActionLabel \o << " " >> \o name
ThoughtFinal ==
  ThoughtLabel \o << " " >> \o ThoughtText \o << "\n" >> \o FinalAnswerLabel \o << " " >>
    \o AnswerText \o << "\n" >>

\* What the LLM may reply
ActionReplies(tools) ==
  { ThoughtAction(ToolSchemaName(t)) : t \in Range(tools) } \cup { ActionAlone(UnknownToolName) }
LlmReplies(tools) == { ThoughtOnly, ThoughtFinal } \cup ActionReplies(tools)

ActionsSoFar == Cardinality({ i \in DOMAIN agentSteps : agentSteps[i].type = "action" })

\* const { maxIterations = DEFAULT_CONFIG.maxIterations } = config
maxIterations == IF agentConfig = NoMaxIterations THEN DefaultMaxIterations ELSE agentConfig

LoopContinuesOnceMore(i) == i <= maxIterations
\* i < maxIterations
LoopContinues(i) == i < maxIterations

\* return { answer, steps } of runReActLoop; AIAgentNodeExecutor.execute wraps it and
\* the engine records the node's success
Returns(answer, trace) ==
  /\ agentPc' = "returned"
  /\ agentResult' = << [answer |-> answer, steps |-> trace] >>
  /\ IF agentStatus = "running"
     THEN /\ agentOutput' = << [response |-> answer, trace |-> trace] >>
          /\ agentStatus' = "success"
     ELSE UNCHANGED << agentOutput, agentStatus >>

\* The head of the for loop with loop variable i
LoopHead(i, trace) ==
  /\ agentI' = i
  /\ IF LoopContinues(i)
     THEN /\ agentPc' = "awaitLLM"
          /\ llmCalls' = llmCalls + 1
          /\ UNCHANGED << agentResult, agentOutput, agentStatus >>
     ELSE /\ Returns(MaxIterationsReached, trace)
          /\ UNCHANGED llmCalls

AgentInit ==
  /\ agentTools \in AgentToolSets
  /\ agentConfig \in {NoMaxIterations} \cup 0..MaxConfigured
  /\ agentPc = "idle"
  /\ agentI = 0
  /\ llmCalls = 0
  /\ agentSteps = << >>
  /\ replies = << >>
  /\ toolNodeMap = << >>
  /\ invocations = << >>
  /\ agentResult = << >>
  /\ agentOutput = << >>
  /\ agentStatus = "pending"
  /\ scratchpad = << >>
  /\ toolFailed = << >>
  /\ CronIdle
  /\ SchedIdle
  /\ DataIdle
  /\ wf = WfLinear
  /\ engine = "idle"
  /\ aborted = FALSE
  /\ pendingMerges = [id \in WfNodeIds(wf) |-> {}]
  /\ isRunning = FALSE
  /\ isPaused = FALSE
  /\ executionStartTime = NullTime
  /\ executionEndTime = NullTime
  /\ nodeResults = [id \in WfNodeIds(wf) |-> NoResult]
  /\ edgeSnapshots = [e \in EdgeIds(wf) |-> NoSnapshot]
  /\ levels = << >>
  /\ tasks = << >>
  /\ now = 1
  /\ pauses = 0
  /\ startCount = [id \in WfNodeIds(wf) |-> 0]
  /\ snapCount = [e \in EdgeIds(wf) |-> 0]
  /\ routed = [id \in WfNodeIds(wf) |-> [succeeded |-> FALSE, has |-> FALSE, handles |-> {},
                                          ids |-> {}, inputs |-> Undef]]
  /\ steps = 0
  /\ logs = << >>
  /\ inFlight = {}
  /\ nodeCalls = << >>
  /\ oldSignals = << >>

\* The engine runs the agent node: setNodeRunning, AIAgentNodeExecutor.execute up to the
\* first LLM call of runReActLoop(userMessage, { onStep })
AgentExecute ==
  /\ agentPc = "idle"
  /\ agentConfig = NoMaxIterations
  /\ agentStatus' = "running"
  /\ toolNodeMap' = BuildToolNodeMap(agentTools)
  /\ agentI' = 0
  /\ agentPc' = "awaitLLM"
  /\ llmCalls' = llmCalls + 1
  /\ scratchpad' = InitialScratchpad
  /\ UNCHANGED << agentTools, agentConfig, agentSteps, replies, invocations, agentResult,
                  agentOutput, toolFailed >>
  /\ UNCHANGED << cronVars, schedVars, engineVars, dataVars >>

\* runReActLoop(userPrompt, { maxIterations }) called with the tools set
RunReActLoop ==
  /\ agentPc = "idle"
  /\ agentConfig # NoMaxIterations
  /\ toolNodeMap' = BuildToolNodeMap(agentTools)
  /\ scratchpad' = InitialScratchpad
  /\ LoopHead(0, agentSteps)
  /\ UNCHANGED << agentTools, agentConfig, agentSteps, replies, invocations, toolFailed >>
  /\ UNCHANGED << cronVars, schedVars, engineVars, dataVars >>

\* webLLM.chat resolves with a reply: the step is parsed and pushed; an answer returns,
\* an action calls _executeTool, a thought goes to the next iteration
LlmReply(reply) ==
  /\ agentPc = "awaitLLM"
  /\ reply \in ActionReplies(agentTools) => ActionsSoFar < MaxToolCalls
  /\ replies' = Append(replies, reply)
  /\ LET step == _parseReActResponse(Trim(reply))
         pushed == Append(agentSteps, step)
     IN /\ agentSteps' = pushed
        /\ scratchpad' = scratchpad \o Trim(reply) \o << "\n" >>
                           \o (IF step.type \in {"answer", "action"} THEN << >> ELSE ThoughtLabel)
        /\ IF step.type = "answer"
           THEN /\ Returns(step.content, pushed)
                /\ UNCHANGED << agentI, llmCalls, invocations >>
           ELSE IF step.type = "action"
           THEN /\ agentPc' = "awaitTool"
                /\ invocations' =
                     IF step.toolCall.name \in DOMAIN toolNodeMap
                     THEN Append(invocations, toolNodeMap[step.toolCall.name])
                     ELSE invocations
                /\ UNCHANGED << agentI, llmCalls, agentResult, agentOutput, agentStatus >>
           ELSE /\ LoopHead(agentI + 1, pushed)
                /\ UNCHANGED invocations
  /\ UNCHANGED << agentTools, agentConfig, toolNodeMap, toolFailed >>
  /\ UNCHANGED << cronVars, schedVars, engineVars, dataVars >>

\* webLLM.chat rejects: runReActLoop throws "LLM Generation failed", the node fails
LlmThrows ==
  /\ agentPc = "awaitLLM"
  /\ agentPc' = "threw"
  /\ agentStatus' = IF agentStatus = "running" THEN "error" ELSE agentStatus
  /\ UNCHANGED << agentTools, agentConfig, agentI, llmCalls, agentSteps, replies, toolNodeMap,
                  invocations, agentResult, agentOutput, scratchpad, toolFailed >>
  /\ UNCHANGED << cronVars, schedVars, engineVars, dataVars >>

\* The observations _executeTool can give for a tool name: the output of the node run
\* through executeNode or the error it threw, or the error for an unknown tool
Observations(name) ==
  IF name \in DOMAIN toolNodeMap THEN { ToolOutputText, ToolFailedJson }
  ELSE IF name \in RegisteredTypes THEN { ToolOutputText, ToolFailedJson }
  ELSE { NotFoundJson(name) }

\* _executeTool settles: the observation step is pushed, the loop goes on. The tool
\* invocation has failed unless the observation is the tool's output
ToolSettles(observation) ==
  /\ agentPc = "awaitTool"
  /\ observation \in Observations(agentSteps[Len(agentSteps)].toolCall.name)
  /\ toolFailed' = Append(toolFailed, observation # ToolOutputText)
  /\ scratchpad' = scratchpad \o ObservationLabel \o << " " >> \o observation \o << "\n" >>
                      \o ThoughtLabel
  /\ LET obsStep == [type |-> "observation",
                     content |-> ObservationLabel \o << " " >> \o observation,
                     toolCall |-> NoToolCall, result |-> << observation >>]
         pushed == Append(agentSteps, obsStep)
     IN /\ agentSteps' = pushed
        /\ LoopHead(agentI + 1, pushed)
  /\ UNCHANGED << agentTools, agentConfig, replies, toolNodeMap, invocations >>
  /\ UNCHANGED << cronVars, schedVars, engineVars, dataVars >>

AgentNext ==
  \/ AgentExecute
  \/ RunReActLoop
  \/ \E reply \in LlmReplies(agentTools) : LlmReply(reply)
  \/ LlmThrows
  \/ \E observation \in { ToolOutputText, ToolFailedJson, NotFoundJson(UnknownToolName) } :
       ToolSettles(observation)

AgentSpec == AgentInit /\ [][AgentNext]_vars

\* All maxIterations replies have come and been dealt with, none a Final Answer
LimitReached ==
  /\ agentPc \notin {"idle", "awaitTool"}
  /\ Len(replies) = maxIterations
  /\ \A i \in DOMAIN replies : _parseReActResponse(Trim(replies[i])).type # "answer"

StepTypes(trace) == [i \in DOMAIN trace |-> trace[i].type]

\* C20: when the first reply holds a Thought and an Action with Action Input naming a
\* connected tool and the second reply a Thought and a Final Answer, the agent's
\* output.response is the final answer text, its trace is the four steps thought,
\* action, observation, answer, and the tool node was run once through executeNode.
C20_OneToolRoundTrip ==
  \A t \in Range(agentTools) :
    /\ agentConfig = NoMaxIterations
    /\ replies = << ThoughtAction(ToolSchemaName(t)), ThoughtFinal >>
    => /\ agentOutput # << >>
       /\ agentOutput[1].response = AnswerText
       /\ StepTypes(agentOutput[1].trace) = << "thought", "action", "observation", "answer" >>
       /\ invocations = << t.id >>

ErrorPrefix == << "E", "r", "r", "o", "r", ":", " " >>

\* The observation steps of the trace, in order: one per _executeTool call
ObservationSteps == SelectSeq(agentSteps, LAMBDA st : st.type = "observation")

\* C21: a tool invocation that fails inside the ReAct loop (unknown tool, validation
\* failure, executor error) does not abort the loop: it becomes an observation of the
\* form 'Error: <message>' appended to the scratchpad, and the loop goes on.
C21_ToolFailureObserved ==
  \A k \in DOMAIN toolFailed :
    toolFailed[k] =>
      /\ k \in DOMAIN ObservationSteps
      /\ StartsWith(ObservationSteps[k].result[1], ErrorPrefix)
      /\ Contains(scratchpad, ObservationLabel \o << " " >> \o ErrorPrefix)

\* C36: for every tool discovered for an agent, the invocation name is
\* '<type>_<id with dashes replaced by underscores>' of its node, and the
\* tool-to-node map sends that name to the id of that node, also when the id
\* of one tool node is a prefix of another's.
C36_ToolNameDispatch ==
  agentPc # "idle" /\ agentConfig = NoMaxIterations =>
    \A i \in DOMAIN agentTools :
      LET t == agentTools[i]
          name == scanConnectedTools(agentTools)[i]
      IN /\ name = t.type \o << "_" >>
                     \o [k \in DOMAIN t.id |-> IF t.id[k] = "-" THEN "_" ELSE t.id[k]]
         /\ name \in DOMAIN toolNodeMap
         /\ toolNodeMap[name] = t.id

(***************************************************************************)
(* workflowStore.js and the import of App.jsx                              *)
(***************************************************************************)
StoreNodeIds == { "a", "b" }
StoreHandles == { "x", "y" }
StoreNode(id) == Node(id, "output", NoData)

\* the ids uuidv4() gives, in the order it gives them
Uuids == << "u1", "u2", "u3", "u4" >>

\* uuidv4(): an id no edge of the store has
uuidv4(edges) ==
  LET free == SelectSeq(Uuids, LAMBDA u : \A i \in DOMAIN edges : edges[i].id # u)
  IN free[1]

\* the edges given to addEdge: with an id of the caller's, or without one
EdgeArguments ==
  { Edge(id, src, tgt, sh) : id \in { "", "e1" }, src \in StoreNodeIds, tgt \in StoreNodeIds,
                             sh \in StoreHandles }

\* the node lists given to setNodes, and the nodes of a document
NodeLists ==
  UNION { [1..n -> { StoreNode(id) : id \in StoreNodeIds }] : n \in 0..MaxStoreNodes }

\* the workflow documents given to loadWorkflow and read by handleImport: an
\* empty one, a -> b, one with two nodes of the same id, one whose edge ends
\* at a node it does not have, one with a self-loop, and one with two
\* connections a -> b that differ in id only
Documents ==
  { [nodes |-> << >>, edges |-> << >>],
    [nodes |-> << StoreNode("a"), StoreNode("b") >>,
     edges |-> << Edge("e1", "a", "b", "x") >>],
    [nodes |-> << StoreNode("a"), StoreNode("a") >>, edges |-> << >>],
    [nodes |-> << StoreNode("a") >>, edges |-> << Edge("e1", "a", "b", "x") >>],
    [nodes |-> << StoreNode("a"), StoreNode("b") >>,
     edges |-> << Edge("e1", "a", "a", "x") >>],
    [nodes |-> << StoreNode("a"), StoreNode("b") >>,
     edges |-> << Edge("e1", "a", "b", "x"), Edge("e2", "a", "b", "x") >>] }

\* the edge lists given to setEdges
EdgeLists == { doc.edges : doc \in Documents } \cup { << Edge("e2", "b", "a", "y") >> }

\* the updates given to updateEdge
EdgeUpdates ==
  { [source |-> n] : n \in StoreNodeIds } \cup { [target |-> n] : n \in StoreNodeIds }
    \cup { [sourceHandle |-> h] : h \in StoreHandles }

\* { ...edge, ...updates }
SpreadOver(edge, updates) ==
  [key \in DOMAIN edge |-> IF key \in DOMAIN updates THEN updates[key] ELSE edge[key]]

Quadruple(e) == << e.source, e.sourceHandle, e.target, e.targetHandle >>

\* state.edges.some(...) of addEdge
Exists(edges, edge) == \E i \in DOMAIN edges : Quadruple(edges[i]) = Quadruple(edge)

\* a document with unique node ids whose edges join two different nodes of it
WellFormed(doc) ==
  /\ \A i, j \in DOMAIN doc.nodes : doc.nodes[i].id = doc.nodes[j].id => i = j
  /\ \A i \in DOMAIN doc.edges :
       /\ doc.edges[i].source # doc.edges[i].target
       /\ \E n \in DOMAIN doc.nodes : doc.nodes[n].id = doc.edges[i].source
       /\ \E n \in DOMAIN doc.nodes : doc.nodes[n].id = doc.edges[i].target

\* what the operations of the workflow store leave alone
storeFrame == << cronVars, schedVars, agentVars, engineVars, artifactVars, orderVars >>

AddNode(node) ==
  /\ Len(storeNodes) < MaxStoreNodes
  /\ storeNodes' = Append(storeNodes, node)
  /\ storeOp' = StoreOp("addNode", TRUE)
  /\ UNCHANGED storeEdges
  /\ UNCHANGED storeFrame

\* a removal with the ids it was called with and the number of edges it took
\* away
Removal(op, nodeIds, edges) ==
  [op |-> op, ok |-> TRUE, ids |-> nodeIds, dropped |-> Len(storeEdges) - Len(edges)]

\* a removeNode that filters the nodes only
RemoveNodeKeepEdges(nodeId) ==
  /\ storeNodes' = SelectSeq(storeNodes, LAMBDA node : node.id # nodeId)
  /\ storeEdges' = storeEdges
  /\ storeOp' = Removal("removeNode", {nodeId}, storeEdges')
  /\ UNCHANGED storeFrame

RemoveNode(nodeId) ==
  /\ storeNodes' = SelectSeq(storeNodes, LAMBDA node : node.id # nodeId)
  /\ storeEdges' = SelectSeq(storeEdges,
                             LAMBDA edge : edge.source # nodeId /\ edge.target # nodeId)
  /\ storeOp' = Removal("removeNode", {nodeId}, storeEdges')
  /\ UNCHANGED storeFrame

RemoveNodes(nodeIds) ==
  /\ storeNodes' = SelectSeq(storeNodes, LAMBDA node : node.id \notin nodeIds)
  /\ storeEdges' = SelectSeq(storeEdges,
                             LAMBDA edge : edge.source \notin nodeIds
                                           /\ edge.target \notin nodeIds)
  /\ storeOp' = Removal("removeNodes", nodeIds, storeEdges')
  /\ UNCHANGED storeFrame

SetNodes(nodes) ==
  /\ storeNodes' = nodes
  /\ storeOp' = StoreOp("setNodes", TRUE)
  /\ UNCHANGED storeEdges
  /\ UNCHANGED storeFrame

AddEdge(edge) ==
  /\ Exists(storeEdges, edge) \/ Len(storeEdges) < MaxStoreEdges
  /\ storeEdges' = IF Exists(storeEdges, edge) THEN storeEdges
                   ELSE Append(storeEdges,
                               IF edge.id = "" THEN [edge EXCEPT !.id = uuidv4(storeEdges)]
                               ELSE edge)
  /\ storeOp' = StoreOp("addEdge", ~Exists(storeEdges, edge))
  /\ UNCHANGED storeNodes
  /\ UNCHANGED storeFrame

UpdateEdge(edgeId, updates) ==
  /\ storeEdges' = [i \in DOMAIN storeEdges |->
                      IF storeEdges[i].id = edgeId THEN SpreadOver(storeEdges[i], updates)
                      ELSE storeEdges[i]]
  /\ storeOp' = StoreOp("updateEdge", TRUE)
  /\ UNCHANGED storeNodes
  /\ UNCHANGED storeFrame

RemoveEdge(edgeId) ==
  /\ storeEdges' = SelectSeq(storeEdges, LAMBDA edge : edge.id # edgeId)
  /\ storeOp' = StoreOp("removeEdge", TRUE)
  /\ UNCHANGED storeNodes
  /\ UNCHANGED storeFrame

RemoveEdges(edgeIds) ==
  /\ storeEdges' = SelectSeq(storeEdges, LAMBDA edge : edge.id \notin edgeIds)
  /\ storeOp' = StoreOp("removeEdges", TRUE)
  /\ UNCHANGED storeNodes
  /\ UNCHANGED storeFrame

SetEdges(edges) ==
  /\ storeEdges' = edges
  /\ storeOp' = StoreOp("setEdges", TRUE)
  /\ UNCHANGED storeNodes
  /\ UNCHANGED storeFrame

ClearWorkflow ==
  /\ storeNodes' = << >>
  /\ storeEdges' = << >>
  /\ storeOp' = StoreOp("clearWorkflow", TRUE)
  /\ UNCHANGED storeFrame

LoadWorkflow(workflow) ==
  /\ storeNodes' = workflow.nodes
  /\ storeEdges' = workflow.edges
  /\ storeOp' = StoreOp("loadWorkflow", WellFormed(workflow))
  /\ UNCHANGED storeFrame

\* handleImport of App.jsx: the parsed document replaces the canvas state,
\* which the sync effect (220-227) writes to the store with setNodes and
\* setEdges
HandleImport(data) ==
  /\ storeNodes' = data.nodes
  /\ storeEdges' = data.edges
  /\ storeOp' = StoreOp("handleImport", WellFormed(data))
  /\ UNCHANGED storeFrame

StoreEdgeIds == { storeEdges[i].id : i \in DOMAIN storeEdges } \cup { "e1" }

StoreNext ==
  \/ \E id \in StoreNodeIds : AddNode(StoreNode(id))
  \/ \E id \in StoreNodeIds : RemoveNode(id)
  \/ \E ids \in SUBSET StoreNodeIds : RemoveNodes(ids)
  \/ \E nodes \in NodeLists : SetNodes(nodes)
  \/ \E edge \in EdgeArguments : AddEdge(edge)
  \/ \E id \in StoreEdgeIds : \E updates \in EdgeUpdates : UpdateEdge(id, updates)
  \/ \E id \in StoreEdgeIds : RemoveEdge(id)
  \/ \E ids \in SUBSET StoreEdgeIds : RemoveEdges(ids)
  \/ \E edges \in EdgeLists : SetEdges(edges)
  \/ ClearWorkflow
  \/ \E doc \in Documents : LoadWorkflow(doc)
  \/ \E doc \in Documents : HandleImport(doc)

StoreInit ==
  /\ Init
  /\ wf = WfLinear

StoreSpec == StoreInit /\ [][StoreNext]_vars

\* C23: no two edges of the store share the quadruple (source, sourceHandle,
\* target, targetHandle), and addEdge of an edge whose quadruple is already
\* present leaves the store unchanged.
C23_UniqueQuadruples ==
  /\ [](\A i, j \in DOMAIN storeEdges :
          Quadruple(storeEdges[i]) = Quadruple(storeEdges[j]) => i = j)
  /\ [][storeOp' = StoreOp("addEdge", FALSE) => UNCHANGED << storeNodes, storeEdges >>]_vars

\* C24: every edge of the store has a source and a target that are ids of
\* nodes of the store.
C24_EdgesJoinStoredNodes ==
  \A i \in DOMAIN storeEdges :
    /\ \E n \in DOMAIN storeNodes : storeNodes[n].id = storeEdges[i].source
    /\ \E n \in DOMAIN storeNodes : storeNodes[n].id = storeEdges[i].target

\* the edges with a source or a target that is not the id of a node
DanglingEdges(nodes, edges) ==
  { edges[i] : i \in { j \in DOMAIN edges :
      \/ \A n \in DOMAIN nodes : nodes[n].id # edges[j].source
      \/ \A n \in DOMAIN nodes : nodes[n].id # edges[j].target } }

\* C40: removeNode(id) and removeNodes(ids) take away the nodes with these
\* ids and every edge whose source or target is one of the ids, leave all
\* other nodes and edges as they were, in their order, and add no dangling
\* edge.
C40_RemovalTakesEdges ==
  [][storeOp'.op \in {"removeNode", "removeNodes"} =>
       LET ids == storeOp'.ids
       IN /\ \A n \in DOMAIN storeNodes' : storeNodes'[n].id \notin ids
          /\ \A i \in DOMAIN storeEdges' :
               storeEdges'[i].source \notin ids /\ storeEdges'[i].target \notin ids
          /\ storeNodes' = SelectSeq(storeNodes, LAMBDA node : node.id \notin ids)
          /\ storeEdges' = SelectSeq(storeEdges,
                                     LAMBDA edge : edge.source \notin ids
                                                   /\ edge.target \notin ids)
          /\ DanglingEdges(storeNodes', storeEdges')
               \subseteq DanglingEdges(storeNodes, storeEdges)]_vars

\* one node was removed and took an edge with it, while another node and
\* another edge stay in the store
C40_Witness ==
  /\ storeOp.op \in {"removeNode", "removeNodes"}
  /\ Cardinality(storeOp.ids) = 1
  /\ storeOp.dropped > 0
  /\ storeNodes # << >>
  /\ storeEdges # << >>

\* C25: loading or importing a document with two nodes of the same id, an
\* edge whose source or target is not a node of the document, or a self-loop
\* is rejected: the stored workflow stays as it was.
C25_MalformedDocumentRejected ==
  [][storeOp' \in { StoreOp("loadWorkflow", FALSE), StoreOp("handleImport", FALSE) }
       => UNCHANGED << storeNodes, storeEdges >>]_vars

(***************************************************************************)
(* artifactStorage.js and the executors that store artifacts               *)
(***************************************************************************)
Blob(content) == [k |-> "blob", content |-> content]
Blobs == { Blob("b1"), Blob("b2") }

\* uuidv4() of saveArtifact: the n-th id it gives
ArtifactUuid(n) == << "id1", "id2", "id3", "id4" >>[n]

\* the category each executor saves under
Category(type) ==
  CASE type = "python" -> "python-output"
    [] type = "textToSpeech" -> "tts-audio"
    [] type = "imageGeneration" -> "generated-image"

ArtifactExecutors == { "python", "textToSpeech", "imageGeneration" }

\* the arguments of a direct call of saveArtifact: also a value that is no
\* Blob, and an empty type
SaveArguments == (Blobs \cup { Str("b1") }) \X { Str("model"), Str("") }

\* the checks of saveArtifact on its arguments (40-48)
ValidSave(blob, type) == blob.k = "blob" /\ type.k = "string" /\ type.s # ""

\* db.delete(ARTIFACTS_STORE, id)
DbDelete(db, id) == [i \in DOMAIN db \ { id } |-> db[i]]

\* a store that holds the last artifact only
DbPutAlone(db, artifact) == [id \in { artifact.id } |-> artifact]

\* db.put(ARTIFACTS_STORE, artifact): the store has keyPath id
DbPut(db, artifact) ==
  [id \in DOMAIN db \cup { artifact.id } |-> IF id = artifact.id THEN artifact ELSE db[id]]

\* getArtifact(id): the blob, null when there is no such artifact, or a throw
\* when id is not a non-empty string
getArtifact(db, id) ==
  IF id.k # "string" \/ id.s = "" THEN [threw |-> TRUE, value |-> Undef]
  ELSE IF id.s \notin DOMAIN db THEN [threw |-> FALSE, value |-> Null]
  ELSE [threw |-> FALSE, value |-> db[id.s].blob]

\* `artifact.id` in the executors, artifact being what saveArtifact returned
ArtifactIdOf(artifact) == Prop(artifact, "id")

\* what the operations of the artifact storage leave alone
artifactFrame == << cronVars, schedVars, agentVars, engineVars, storeVars, orderVars >>

\* saveArtifact up to `await db.put(...)`; by names the executor that calls
\* it, "direct" for another caller
SaveArtifact(blob, type, by) ==
  /\ uuidCount < MaxSaves
  /\ IF ValidSave(blob, type)
     THEN /\ uuidCount' = uuidCount + 1
          /\ pendingSaves' = pendingSaves \cup
               { [id |-> ArtifactUuid(uuidCount + 1), blob |-> blob, type |-> type.s,
                  by |-> by] }
     ELSE UNCHANGED << uuidCount, pendingSaves >>
  /\ UNCHANGED << artifactDb, returnedIds, live, nodeOutputs >>
  /\ UNCHANGED artifactFrame

\* db.put settles and saveArtifact returns id; an executor that called it
\* returns { artifactId: artifact.id, type }
PutSettles(p) ==
  /\ artifactDb' = DbPut(artifactDb, [id |-> p.id, blob |-> p.blob, type |-> p.type])
  /\ pendingSaves' = pendingSaves \ { p }
  /\ returnedIds' = Append(returnedIds, p.id)
  /\ live' = [id \in DOMAIN live \cup { p.id } |-> IF id = p.id THEN p.blob ELSE live[id]]
  /\ nodeOutputs' = IF p.by = "direct" THEN nodeOutputs
                    ELSE nodeOutputs \cup { [type |-> p.by, saved |-> p.id,
                                             artifactId |-> ArtifactIdOf(Str(p.id))] }
  /\ UNCHANGED uuidCount
  /\ UNCHANGED artifactFrame

\* deleteArtifact(id) with a non-empty string
DeleteArtifact(id) ==
  /\ artifactDb' = IF id \in DOMAIN artifactDb THEN DbDelete(artifactDb, id) ELSE artifactDb
  /\ live' = [i \in DOMAIN live \ { id } |-> live[i]]
  /\ UNCHANGED << pendingSaves, uuidCount, returnedIds, nodeOutputs >>
  /\ UNCHANGED artifactFrame

\* clearAllArtifacts
ClearAllArtifacts ==
  /\ artifactDb' = << >>
  /\ live' = << >>
  /\ UNCHANGED << pendingSaves, uuidCount, returnedIds, nodeOutputs >>
  /\ UNCHANGED artifactFrame

ArtifactNext ==
  \/ \E a \in SaveArguments : SaveArtifact(a[1], a[2], "direct")
  \/ \E type \in ArtifactExecutors : \E blob \in Blobs :
       SaveArtifact(blob, Str(Category(type)), type)
  \/ \E p \in pendingSaves : PutSettles(p)
  \/ \E n \in 1..uuidCount : DeleteArtifact(ArtifactUuid(n))
  \/ ClearAllArtifacts

ArtifactInit ==
  /\ Init
  /\ wf = WfLinear

ArtifactSpec == ArtifactInit /\ [][ArtifactNext]_vars

\* C26: getArtifact(id) returns the blob saved under id from the return of
\* saveArtifact until deleteArtifact(id) or clearAllArtifacts, whatever is
\* saved or deleted under other ids; and no id is returned twice.
C26_SavedBlobIsKept ==
  /\ \A id \in DOMAIN live : getArtifact(artifactDb, Str(id)) = [threw |-> FALSE, value |-> live[id]]
  /\ \A i, j \in DOMAIN returnedIds : returnedIds[i] = returnedIds[j] => i = j

\* two artifacts were saved, the second was deleted and the first is kept
C26_Witness ==
  /\ Len(returnedIds) = 2
  /\ DOMAIN live = { returnedIds[1] }
  /\ pendingSaves = {}

\* C27: the artifactId in the output of a textToSpeech, imageGeneration or
\* python node that stored an artifact is the id the artifact was saved
\* under: getArtifact(output.artifactId) returns the stored blob while the
\* artifact is there.
C27_OutputNamesArtifact ==
  \A o \in nodeOutputs :
    /\ o.artifactId = Str(o.saved)
    /\ o.saved \in DOMAIN live =>
         getArtifact(artifactDb, o.artifactId) = [threw |-> FALSE, value |-> live[o.saved]]

\* C22: the source of a resource edge into an aiAgent is never started by the
\* traversal of executeGraph, its status is never set by the run, and its
\* completion does not schedule the agent.
C22_ToolNodeOutsideTraversal ==
  \A a \in WfNodeIds(wf) :
    NodeOf(wf, a).type = "aiAgent" =>
      \A i \in DOMAIN ResourceEdges(wf, a) :
        LET tool == ResourceEdges(wf, a)[i].source
        IN /\ startCount[tool] = 0
           /\ nodeResults[tool] = NoResult
           /\ a \notin routed[tool].ids
           /\ \A ti \in DOMAIN tasks : tasks[ti].node # tool

\* the tasks that reached the call of executor.execute
Started == { ti \in DOMAIN tasks : tasks[ti].at # NullTime }

\* the upstream nodes of a started task whose status was success at its start
SucceededUpstream(ti) ==
  { s \in DOMAIN tasks[ti].upstream : tasks[ti].upstream[s].status = "success" }

\* C28: the inputs passed to a node's executor are built from exactly the
\* upstream nodes whose status is success when the node starts: the output
\* itself when there is exactly one, the mapping from upstream id to output
\* otherwise.
C28_InputsFromSucceededUpstream ==
  \A ti \in Started :
    LET ok == SucceededUpstream(ti)
        inputs == tasks[ti].inputs
    IN IF Cardinality(ok) = 1
       THEN \A s \in ok : inputs = tasks[ti].upstream[s].output
       ELSE /\ inputs.k = "object"
            /\ Range(inputs.ks) = ok
            /\ Len(inputs.ks) = Cardinality(ok)
            /\ \A s \in ok : inputs.f[s] = tasks[ti].upstream[s].output

\* a node started with two succeeded upstream nodes and one that had not
\* succeeded, and a node started with exactly one succeeded upstream node
C28_Witness ==
  /\ \E ti \in Started :
       /\ Cardinality(SucceededUpstream(ti)) = 2
       /\ DOMAIN tasks[ti].upstream # SucceededUpstream(ti)
  /\ \E ti \in Started : Cardinality(SucceededUpstream(ti)) = 1

\* C29: a call of executeNode leaves nodeResults, edgeSnapshots, isRunning and
\* isPaused as they were, whether it returns the tool's output or throws.
C29_ExecuteNodeLeavesState ==
  [][nodeCalls' # nodeCalls =>
       UNCHANGED << nodeResults, edgeSnapshots, isRunning, isPaused >>]_vars

\* executeNode returned a tool's output while the run was in progress and the
\* store held the result the traversal had recorded for that node
C29_Witness ==
  \E i \in DOMAIN nodeCalls :
    /\ nodeCalls[i].ok
    /\ isRunning
    /\ nodeResults[nodeCalls[i].nodeId].status = "success"

\* the tasks of the traversal whose node has a type without executor
Unregistered == { ti \in DOMAIN tasks : getExecutor(NodeOf(wf, tasks[ti].node).type) = "none" }

\* C30: when the traversal reaches a node whose type has no registered
\* executor, the node is marked error and the failure reaches the run: the
\* level of the node rejects.
C30_MissingExecutorIsError ==
  \A ti \in Unregistered :
    /\ nodeResults[tasks[ti].node].status = "error"
    /\ levels[tasks[ti].level].failed

\* the nodes whose data lack what their validator requires
LacksRequired ==
  { id \in WfNodeIds(wf) :
      \/ NodeOf(wf, id).type = "codeExecutor" /\ "code" \notin DOMAIN NodeOf(wf, id).data
      \/ NodeOf(wf, id).type = "httpRequest" /\ "url" \notin DOMAIN NodeOf(wf, id).data }

\* the tasks of such nodes that the traversal has taken up
ReachedInvalid == { ti \in DOMAIN tasks : tasks[ti].node \in LacksRequired }

NoEntry(w) ==
  \A id \in WfNodeIds(w) :
    \E i \in DOMAIN w.edges : w.edges[i].target = id /\ w.edges[i].source \in WfNodeIds(w)

\* C32: executeGraph on a workflow without a node that lacks incoming edges
\* fails before the run is started: nodeResults, edgeSnapshots, isRunning and
\* the start time keep their values.
C32_NoEntryRejected ==
  [][engine = "idle" /\ engine' # "idle" /\ NoEntry(wf) =>
       /\ engine' = "rejected"
       /\ UNCHANGED << nodeResults, edgeSnapshots, isRunning, isPaused, executionStartTime,
                       executionEndTime, tasks, levels >>]_vars

\* executeGraph was called on a workflow whose nodes all lie on or behind a
\* cycle, and has thrown
C32_Witness ==
  /\ NoEntry(wf)
  /\ WfNodeIds(wf) # {}
  /\ \E id \in WfNodeIds(wf) : NodeOf(wf, id).type = "codeExecutor"
  /\ engine = "rejected"

\* C37: whenever isRunning is false after a run has ended (by completion, by
\* a node failure or by abort), no node has status running.  The store is
\* looked at between macrotasks, when no continuation is pending.
C37_StoppedMeansNoneRunning ==
  /\ engine \in {"resolved", "rejected"}
  /\ executionEndTime # NullTime
  /\ ~isRunning
  /\ ~MicroPending
  => NoNodeRunning

(***************************************************************************)
(* getExecutionOrder applied to graphs                                     *)
(***************************************************************************)
MaxOrderNodes == 3
MaxOrderEdges == 3

OrderIds == << "a", "b", "c", "d", "e" >>

\* the graph of the first n nodes with one edge for each pair of ends
OrderGraph(n, ends) ==
  [nodes |-> [i \in 1..n |-> Node(OrderIds[i], "output", NoData)],
   edges |-> [i \in DOMAIN ends |-> Edge(OrderIds[i], OrderIds[ends[i][1]],
                                          OrderIds[ends[i][2]], "")]]

RECURSIVE visit(_, _, _)
RECURSIVE VisitEach(_, _, _)

\* a visit that appends the node to the order
visitAppending(w, st, nodeId) ==
  IF nodeId \in st.visited THEN st
  ELSE LET st1 == [st EXCEPT !.visited = @ \cup {nodeId}]
       IN IF HasNode(w, nodeId)
          THEN LET st2 == VisitEach(w, st1, Outgoing(w, nodeId))
               IN [st2 EXCEPT !.order = Append(@, nodeId)]
          ELSE st1

\* visit(nodeId) of getExecutionOrder, on the pair of `visited` and `order`
visit(w, st, nodeId) ==
  IF nodeId \in st.visited THEN st
  ELSE LET st1 == [st EXCEPT !.visited = @ \cup {nodeId}]
       IN IF HasNode(w, nodeId)
          THEN LET st2 == VisitEach(w, st1, Outgoing(w, nodeId))
               IN [st2 EXCEPT !.order = << nodeId >> \o @]
          ELSE st1

\* entry.outgoing.forEach(downstream => visit(downstream)), and the forEach
\* over the nodes without incoming edge
VisitEach(w, st, ids) ==
  IF ids = << >> THEN st ELSE VisitEach(w, visit(w, st, Head(ids)), Tail(ids))

getExecutionOrder(w) ==
  LET ids == [i \in DOMAIN w.nodes |-> w.nodes[i].id]
      roots == SelectSeq(ids, LAMBDA id : Incoming(w, id) = << >>)
  IN VisitEach(w, [visited |-> {}, order |-> << >>], roots).order

OrderInit ==
  \* at most MaxOrderNodes nodes and MaxOrderEdges edges, no two edges between
  \* the same nodes in the same direction; cycles and self-loops are among them
  /\ \E n \in 0..MaxOrderNodes : \E m \in 0..MaxOrderEdges :
       \E ends \in [1..m -> (1..n) \X (1..n)] :
         /\ \A i, j \in 1..m : ends[i] = ends[j] => i = j
         /\ orderGraph = OrderGraph(n, ends)
  /\ orderResult = << >>
  /\ StoreIdle
  /\ ArtifactIdle
  /\ CronIdle
  /\ SchedIdle
  /\ AgentIdle
  /\ wf = WfLinear
  /\ engine = "idle"
  /\ aborted = FALSE
  /\ pendingMerges = [id \in WfNodeIds(wf) |-> {}]
  /\ isRunning = FALSE
  /\ isPaused = FALSE
  /\ executionStartTime = NullTime
  /\ executionEndTime = NullTime
  /\ nodeResults = [id \in WfNodeIds(wf) |-> NoResult]
  /\ edgeSnapshots = [e \in EdgeIds(wf) |-> NoSnapshot]
  /\ levels = << >>
  /\ tasks = << >>
  /\ now = 1
  /\ pauses = 0
  /\ startCount = [id \in WfNodeIds(wf) |-> 0]
  /\ snapCount = [e \in EdgeIds(wf) |-> 0]
  /\ routed = [id \in WfNodeIds(wf) |-> [succeeded |-> FALSE, has |-> FALSE, handles |-> {},
                                          ids |-> {}, inputs |-> Undef]]
  /\ steps = 0
  /\ logs = << >>
  /\ inFlight = {}
  /\ nodeCalls = << >>
  /\ oldSignals = << >>

CallGetExecutionOrder ==
  /\ orderResult = << >>
  /\ orderResult' = << getExecutionOrder(orderGraph) >>
  /\ UNCHANGED << orderGraph, storeVars, artifactVars, cronVars, schedVars, agentVars,
                  engineVars >>

OrderSpec == OrderInit /\ [][CallGetExecutionOrder]_vars

RECURSIVE ReachableWithin(_, _, _)
\* the nodes reached from the nodes vs over at least one and at most n edges
ReachableWithin(w, vs, n) ==
  IF n = 0 THEN {}
  ELSE LET down == { w.edges[i].target : i \in { j \in DOMAIN w.edges : w.edges[j].source \in vs } }
       IN down \cup ReachableWithin(w, down, n - 1)

Acyclic(w) == \A v \in WfNodeIds(w) : v \notin ReachableWithin(w, {v}, Len(w.nodes))

Position(order, id) == CHOOSE i \in DOMAIN order : order[i] = id

\* C35: for every acyclic graph, getExecutionOrder returns every node
\* exactly once and places u before v for every edge u -> v.
C35_TopologicalOrder ==
  orderResult # << >> /\ Acyclic(orderGraph) =>
    LET order == orderResult[1]
    IN /\ Range(order) = WfNodeIds(orderGraph)
       /\ Len(order) = Len(orderGraph.nodes)
       /\ \A i \in DOMAIN orderGraph.edges :
            Position(order, orderGraph.edges[i].source)
              < Position(order, orderGraph.edges[i].target)

\* the order of a graph in which a node is reached over two paths of
\* different length
C35_Witness ==
  /\ orderResult # << >>
  /\ Acyclic(orderGraph)
  /\ Len(orderGraph.nodes) = 3
  /\ Len(orderGraph.edges) = 3

Waiting == { lvl \in DOMAIN levels : levels[lvl].state = "pausewait" }

\* C33: while isPaused is true no node is set to running; pausing leaves the
\* executors in flight alone, and they still settle and record their result;
\* a level that waits in the pause loop leaves it once the run is resumed,
\* and then (unless the run was aborted) begins each of its nodes, the tasks
\* begun before being as they were.
C33_PauseHoldsTraversal ==
  /\ [][isPaused => \A id \in WfNodeIds(wf) : startCount'[id] = startCount[id]]_vars
  /\ [][~isPaused /\ isPaused' => UNCHANGED << tasks, levels, nodeResults, edgeSnapshots >>]_vars
  /\ [][\A lvl \in Waiting :
          levels'[lvl].state # "pausewait" =>
            /\ SubSeq(tasks', 1, Len(tasks)) = tasks
            /\ \/ aborted /\ levels'[lvl].failed
               \/ /\ ~isPaused
                  /\ [i \in 1..(Len(tasks') - Len(tasks)) |-> tasks'[Len(tasks) + i].node]
                       = levels[lvl].nodes
                  /\ \A ti \in (Len(tasks) + 1)..Len(tasks') : tasks'[ti].level = lvl]_vars
  /\ (Waiting # {}) ~> (Waiting = {})

\* a node has recorded its success while the run was paused, and the level of
\* its downstream nodes waits in the pause loop
C33_Witness ==
  /\ isPaused
  /\ \E lvl \in Waiting :
       /\ levels[lvl].parent # 0
       /\ Status(tasks[levels[lvl].parent].node) = "success"
       /\ levels[lvl].nodes # << >>

\* a level that waited in the pause loop has begun its nodes after the resume
C33_Resumed ==
  /\ ~isPaused
  /\ ~aborted
  /\ isRunning
  /\ pauses > 0
  /\ \E ti \in DOMAIN tasks :
       /\ levels[tasks[ti].level].parent # 0
       /\ tasks[ti].at # NullTime
       /\ tasks[levels[tasks[ti].level].parent].pc = "awaitLevel"

\* C38: runs are isolated: whatever is written into the node results and the
\* edge snapshots is written by a task of the run that startExecution last
\* began, and abort() rejects every delay that waits, those of an earlier run
\* included.
C38_RunsIsolated ==
  /\ [][/\ UNCHANGED oldSignals
        /\ nodeResults' # nodeResults \/ edgeSnapshots' # edgeSnapshots
        => \A ti \in DOMAIN tasks' :
             ti \notin DOMAIN tasks \/ tasks'[ti] # tasks[ti] =>
               RunOf(tasks', levels', tasks'[ti].level) > Len(oldSignals)]_vars
  /\ [][~aborted /\ aborted' =>
          \A ti \in DOMAIN tasks :
            tasks[ti].pc = "executing" /\ tasks[ti].listening => tasks'[ti].rejected]_vars

====
